---------------------------- MODULE Spec2Model ----------------------------
(***************************************************************************)
(* Model of the resume-improver server side: the phase runner of           *)
(* lib/analyzer (provider dispatch, credential resolution, response        *)
(* normalisation, JSON parse) and the two HTTP handlers POST /api/analyze  *)
(* and POST /api/rewrite.                                                  *)
(*                                                                         *)
(* Texts are sequences of characters.  A request body is the parsed JSON   *)
(* object of the handler's declared input type; resume_text is represented *)
(* by whether the field is defined and by its length (the handlers read    *)
(* only its truthiness and its .length).                                   *)
(***************************************************************************)
EXTENDS Integers, Sequences, FiniteSets, TLC

(***************************************************************************)
(* Bounds of the model                                                     *)
(***************************************************************************)
\* longest text, counted in tokens, fed to the normaliser in SpecNorm
MaxTokens == 4

(***************************************************************************)
(* Strings                                                                 *)
(***************************************************************************)
\* characters removed by String.prototype.trim that occur in the model
WhiteSpace == {" ", "\n"}

RECURSIVE trimStart(_)
trimStart(s) ==
    IF s # <<>> /\ Head(s) \in WhiteSpace THEN trimStart(Tail(s)) ELSE s

RECURSIVE trimEnd(_)
trimEnd(s) ==
    IF s # <<>> /\ s[Len(s)] \in WhiteSpace
    THEN trimEnd(SubSeq(s, 1, Len(s) - 1))
    ELSE s

trim(s) == trimEnd(trimStart(s))

startsWith(s, p) == Len(s) >= Len(p) /\ SubSeq(s, 1, Len(p)) = p

endsWith(s, p) == Len(s) >= Len(p) /\ SubSeq(s, Len(s) - Len(p) + 1, Len(s)) = p

\* s.slice(n) for 0 <= n
sliceFrom(s, n) == SubSeq(s, n + 1, Len(s))

\* s.slice(0, -n) for 0 < n
sliceDropLast(s, n) == SubSeq(s, 1, Len(s) - n)

\* the grave accent U+0060, which a TLA+ string literal cannot hold
BackTick == "BQ"

Fence == <<BackTick, BackTick, BackTick>>
FenceJson == Fence \o <<"j", "s", "o", "n">>

(***************************************************************************)
(* JSON.parse on texts.  The result is [ok, val, next]: whether a value    *)
(* was read at index i, the value, and the index after it.  Values are     *)
(* tagged records: num (decimal integer), str (characters), lit            *)
(* (true/false/null), arr (sequence of values), obj (sequence of members   *)
(* in insertion order).  Escape sequences, fractions and exponents do not  *)
(* occur in the texts of the model.                                        *)
(***************************************************************************)
Digits == {"0", "1", "2", "3", "4", "5", "6", "7", "8", "9"}

ParseFail == [ok |-> FALSE, val |-> [t |-> "none"], next |-> 0]

ParseOk(v, n) == [ok |-> TRUE, val |-> v, next |-> n]

\* the first index from i on that holds no white space, Len(s) + 1 when none
skipWs(s, i) ==
    IF i > Len(s) THEN i
    ELSE CHOOSE j \in i..(Len(s) + 1) :
            /\ j > Len(s) \/ s[j] \notin {" ", "\n"}
            /\ \A k \in i..(j - 1) : s[k] \in {" ", "\n"}

matchAt(s, i, lit) ==
    i + Len(lit) - 1 <= Len(s) /\ SubSeq(s, i, i + Len(lit) - 1) = lit

\* index of the closing quote of the string literal opened just before i, or 0
stringEnd(s, i) ==
    LET \* the first quote, reverse solidus or line feed from i on
        stop == CHOOSE j \in i..(Len(s) + 1) :
                    /\ j > Len(s) \/ s[j] \in {"\"", "\\", "\n"}
                    /\ \A k \in i..(j - 1) : s[k] \notin {"\"", "\\", "\n"}
    IN IF i <= Len(s) /\ stop <= Len(s) /\ s[stop] = "\"" THEN stop ELSE 0

\* the first index from i on that holds no digit, Len(s) + 1 when none
numberEnd(s, i) ==
    IF i > Len(s) THEN i
    ELSE CHOOSE j \in i..(Len(s) + 1) :
            /\ j > Len(s) \/ s[j] \notin Digits
            /\ \A k \in i..(j - 1) : s[k] \in Digits

RECURSIVE numberVal(_, _, _, _)
numberVal(s, i, j, acc) ==
    LET c == s[i]
        digit == CASE c = "0" -> 0 [] c = "1" -> 1 [] c = "2" -> 2 [] c = "3" -> 3
                   [] c = "4" -> 4 [] c = "5" -> 5 [] c = "6" -> 6 [] c = "7" -> 7
                   [] c = "8" -> 8 [] c = "9" -> 9
    IN IF i >= j THEN acc ELSE numberVal(s, i + 1, j, acc * 10 + digit)

\* object member k := v, a repeated key keeps its first position
addMember(ms, k, v) ==
    IF \E n \in 1..Len(ms) : ms[n].k = k
    THEN [n \in 1..Len(ms) |-> IF ms[n].k = k THEN [k |-> k, v |-> v] ELSE ms[n]]
    ELSE Append(ms, [k |-> k, v |-> v])

RECURSIVE parseValue(_, _)
RECURSIVE parseElements(_, _, _)
RECURSIVE parseMembers(_, _, _)

parseValue(s, i0) ==
    LET i == skipWs(s, i0)
        j == skipWs(s, i + 1)
        e == IF s[i] = "\"" THEN stringEnd(s, i + 1) ELSE numberEnd(s, i)
    IN IF i > Len(s) THEN ParseFail
       ELSE CASE s[i] = "{" ->
                   IF j <= Len(s) /\ s[j] = "}"
                   THEN ParseOk([t |-> "obj", v |-> <<>>], j + 1)
                   ELSE parseMembers(s, j, <<>>)
              [] s[i] = "[" ->
                   IF j <= Len(s) /\ s[j] = "]"
                   THEN ParseOk([t |-> "arr", v |-> <<>>], j + 1)
                   ELSE parseElements(s, j, <<>>)
              [] s[i] = "\"" ->
                   IF e = 0 THEN ParseFail
                   ELSE ParseOk([t |-> "str", v |-> SubSeq(s, i + 1, e - 1)], e + 1)
              [] s[i] \in Digits ->
                   IF s[i] = "0" /\ e > i + 1 THEN ParseFail
                   ELSE ParseOk([t |-> "num", v |-> numberVal(s, i, e, 0)], e)
              [] matchAt(s, i, <<"n", "u", "l", "l">>) ->
                   ParseOk([t |-> "lit", v |-> "null"], i + 4)
              [] matchAt(s, i, <<"t", "r", "u", "e">>) ->
                   ParseOk([t |-> "lit", v |-> "true"], i + 4)
              [] matchAt(s, i, <<"f", "a", "l", "s", "e">>) ->
                   ParseOk([t |-> "lit", v |-> "false"], i + 5)
              [] OTHER -> ParseFail

\* elements of an array, the first of which starts at i
parseElements(s, i, acc) ==
    LET r == parseValue(s, i)
        j == skipWs(s, r.next)
    IN IF ~r.ok \/ j > Len(s) THEN ParseFail
       ELSE CASE s[j] = "]" -> ParseOk([t |-> "arr", v |-> Append(acc, r.val)], j + 1)
              [] s[j] = "," -> parseElements(s, j + 1, Append(acc, r.val))
              [] OTHER -> ParseFail

\* members of an object, the first of which starts at i (white space skipped)
parseMembers(s, i, acc) ==
    LET \* the closing quote of the key, 0 when there is no key
        e == IF i > Len(s) \/ s[i] # "\"" THEN 0 ELSE stringEnd(s, i + 1)
        \* the place of the colon after the key, 0 when there is no key
        c == IF e = 0 THEN 0 ELSE skipWs(s, e + 1)
        r == IF c = 0 \/ c > Len(s) \/ s[c] # ":" THEN ParseFail
             ELSE parseValue(s, c + 1)
        j == skipWs(s, r.next)
        ms == addMember(acc, SubSeq(s, i + 1, e - 1), r.val)
    IN IF ~r.ok \/ j > Len(s) THEN ParseFail
       ELSE CASE s[j] = "}" -> ParseOk([t |-> "obj", v |-> ms], j + 1)
              [] s[j] = "," -> parseMembers(s, skipWs(s, j + 1), ms)
              [] OTHER -> ParseFail

\* JSON.parse(text): [ok, val]; ok = FALSE stands for the thrown SyntaxError
JSONparse(text) ==
    LET r == parseValue(text, 1) IN
    IF r.ok /\ skipWs(text, r.next) > Len(text)
    THEN [ok |-> TRUE, val |-> r.val]
    ELSE [ok |-> FALSE, val |-> [t |-> "none"]]

(***************************************************************************)
(* JSON.stringify of a parsed value, as NextResponse.json writes the body  *)
(***************************************************************************)
DigitChars == <<"0", "1", "2", "3", "4", "5", "6", "7", "8", "9">>

RECURSIVE numberText(_)
numberText(n) ==
    IF n < 10 THEN <<DigitChars[n + 1]>>
    ELSE numberText(n \div 10) \o <<DigitChars[(n % 10) + 1]>>

RECURSIVE JSONstringify(_)
RECURSIVE stringifyElements(_)
RECURSIVE stringifyMembers(_)

JSONstringify(value) ==
    IF value.t = "obj" THEN <<"{">> \o stringifyMembers(value.v) \o <<"}">>
    ELSE IF value.t = "arr" THEN <<"[">> \o stringifyElements(value.v) \o <<"]">>
    ELSE IF value.t = "str" THEN <<"\"">> \o value.v \o <<"\"">>
    ELSE IF value.t = "num" THEN numberText(value.v)
    ELSE IF value.t = "lit"
    THEN IF value.v = "null" THEN <<"n", "u", "l", "l">>
         ELSE IF value.v = "true" THEN <<"t", "r", "u", "e">>
         ELSE <<"f", "a", "l", "s", "e">>
    ELSE <<>>

\* the elements in their order, separated by commas
stringifyElements(vs) ==
    IF vs = <<>> THEN <<>>
    ELSE IF Len(vs) = 1 THEN JSONstringify(vs[1])
    ELSE JSONstringify(vs[1]) \o <<",">> \o stringifyElements(Tail(vs))

\* the members in their order, "key":value separated by commas
stringifyMembers(ms) ==
    IF ms = <<>> THEN <<>>
    ELSE LET m == <<"\"">> \o ms[1].k \o <<"\"", ":">> \o JSONstringify(ms[1].v)
         IN IF Len(ms) = 1 THEN m ELSE m \o <<",">> \o stringifyMembers(Tail(ms))

\* a phase result with every number above 10 brought down to 10
RECURSIVE clampScores(_)
clampScores(value) ==
    IF value.t = "num" THEN [t |-> "num", v |-> IF value.v > 10 THEN 10 ELSE value.v]
    ELSE IF value.t = "arr"
    THEN [t |-> "arr", v |-> [n \in 1..Len(value.v) |-> clampScores(value.v[n])]]
    ELSE IF value.t = "obj"
    THEN [t |-> "obj", v |-> [n \in 1..Len(value.v) |->
                                 [k |-> value.v[n].k, v |-> clampScores(value.v[n].v)]]]
    ELSE value

(***************************************************************************)
(* Response normaliser                                                     *)
(***************************************************************************)
\* a cleaner that knows only the tagged opening fence
cleanJsonResponse_jsonTagOnly(text) ==
    LET c0 == trim(text)
        c1 == IF startsWith(c0, FenceJson) THEN sliceFrom(c0, 7) ELSE c0
        c2 == IF endsWith(c1, Fence) THEN sliceDropLast(c1, 3) ELSE c1
    IN trim(c2)

cleanJsonResponse(text) ==
    LET c0 == trim(text)
        c1 == IF startsWith(c0, FenceJson) THEN sliceFrom(c0, 7)
              ELSE IF startsWith(c0, Fence) THEN sliceFrom(c0, 3)
              ELSE c0
        c2 == IF endsWith(c1, Fence) THEN sliceDropLast(c1, 3) ELSE c1
    IN trim(c2)

\* a repair that hands back the trimmed text also when it looks truncated
repairOpenAIJson_trimTruncated(text) ==
    IF JSONparse(text).ok THEN text ELSE trim(text)

\* a repair without the first JSON.parse(text) attempt
repairOpenAIJson_noParseFirst(text) ==
    LET trimmed == trim(text) IN
    IF ~endsWith(trimmed, <<"}">>) /\ ~endsWith(trimmed, <<"]">>)
    THEN text
    ELSE trimmed

repairOpenAIJson(text) ==
    IF JSONparse(text).ok THEN text
    ELSE LET trimmed == trim(text) IN
         IF ~endsWith(trimmed, <<"}">>) /\ ~endsWith(trimmed, <<"]">>)
         THEN text
         ELSE trimmed

\* rawText is non-empty here: runPhase has already rejected empty text
\* repairOpenAIJson of the single-phase analyze route: the text comes back as it was given on every path
repairOpenAIJsonUntrimmed(text) ==
    IF JSONparse(text).ok THEN text
    ELSE LET repaired == text
             trimmed == trim(repaired)
         IN IF ~endsWith(trimmed, <<"}">>) /\ ~endsWith(trimmed, <<"]">>)
            THEN text
            ELSE repaired

normalizePhaseResponse(provider, rawText) ==
    IF rawText = <<>> THEN rawText
    ELSE IF provider = "gemini" THEN cleanJsonResponse(rawText)
    ELSE IF provider = "openai" THEN repairOpenAIJson(rawText)
    ELSE trim(rawText)


(***************************************************************************)
(* Requests, environment, vendor replies                                   *)
(***************************************************************************)
\* null / undefined
Nil == "<nil>"

MinResumeLength == 100
MaxResumeLength == 15000

Providers == {"openai", "gemini"}

\* model identifiers a request may carry
ModelIds ==
    { <<"g", "e", "m", "i", "n", "i", "-", "2">>,
      <<"g", "p", "t", "-", "4", "o">>,
      <<"g", "p", "t", "-", "5">>,
      <<"g", "p", "t", "-", "4", ".", "1">>,
      <<"g", "e", "m", "i", "n">>,
      <<"m", "y", "-", "g", "e", "m", "i", "n", "i">> }

\* resume_text: absent, empty, and lengths around both limits
ResumeTexts ==
    { [defined |-> FALSE, length |-> 0] } \cup
    { [defined |-> TRUE, length |-> n] :
        n \in { 0, MinResumeLength - 1, MinResumeLength,
                MaxResumeLength, MaxResumeLength + 1 } }

\* provider_api_key: absent, the empty string, a key
RequestKeys == {Nil, "", "sk-user"}

AnalyzeInputs ==
    [ resume_text : ResumeTexts, perspective : {"general"}, language : {"en"},
      region : {"usa"}, provider : Providers, model : ModelIds,
      provider_api_key : RequestKeys, target_role : {Nil},
      job_description : {Nil, "jd"} ]

\* the analysis payload of a rewrite request: absent, an object without the
\* recommendations member, a complete AnalysisPhaseResult
RewriteInputs ==
    LET Analyses == { [present |-> FALSE, recommendations |-> FALSE],
                      [present |-> TRUE, recommendations |-> FALSE],
                      [present |-> TRUE, recommendations |-> TRUE] }
    IN [ resume_text : ResumeTexts, analysis : Analyses, perspective : {"general"},
         language : {"en"}, region : {"usa"}, provider : Providers,
         model : ModelIds, provider_api_key : RequestKeys, target_role : {Nil} ]

\* process.env: each default credential is set or not
Environments ==
    [ OPENAI_API_KEY : {Nil, "sk-env-openai"},
      GEMINI_API_KEY : {Nil, "sk-env-gemini"} ]

\* texts a vendor may produce
TextObject == <<"{", "}">>
TextMember == <<"{", "\"", "a", "\"", ":", "1", "2", "}">>
TextFenced == Fence \o <<"{", "}">> \o Fence
TextTruncated == <<"{", "\"", "a", "\"", ":", "1">>
TextProse == <<"x">>
TextFencedTruncated == FenceJson \o <<"\n">> \o TextTruncated
TextScores == <<"{", "\"", "a", "\"", ":", "[", "1", "2", ",", " ", "1", "]", "}">>

ModelTexts ==
    { <<>>, TextObject, TextMember, <<"[", "1", ",", "2", "]">>,
      <<" ", "{", "}", "\n">>, FenceJson \o <<"\n", "{", "}", "\n">> \o Fence,
      TextFenced, TextTruncated, TextProse, TextFencedTruncated,
      TextScores,
      <<"{", "\"", "k", "e", "y", "w", "o", "r", "d", "_", "h", "e", "l", "p",
      "e", "r", "\"", ":", "{", "\"", "e", "n", "a", "b", "l", "e", "d", "\"",
      ":", "t", "r", "u", "e", ",", "\"", "m", "i", "s", "s", "i", "n", "g", "_",
      "k", "e", "y", "w", "o", "r", "d", "s", "\"", ":", "[", "\"", "a", "\"",
      "]", "}", "}">> }

\* what the adapter gets back from one vendor call: a text, no text, an error
VendorReplies ==
    { [kind |-> "text", text |-> t] : t \in ModelTexts } \cup
    { [kind |-> "null", text |-> <<>>], [kind |-> "error", text |-> <<>>] }

falsy(v) == v = Nil \/ v = ""

\* a ?? b
nullish(a, b) == IF a = Nil THEN b ELSE a

\* a || b
orElse(a, b) == IF falsy(a) THEN b ELSE a

(***************************************************************************)
(* lib/analyzer                                                            *)
(***************************************************************************)
isGeminiModel(model) == startsWith(model, <<"g", "e", "m", "i", "n", "i">>)

\* /^gpt-(4\.1|5)/.test(model)
usesResponsesApi(model) ==
    \/ startsWith(model, <<"g", "p", "t", "-", "4", ".", "1">>)
    \/ startsWith(model, <<"g", "p", "t", "-", "5">>)

\* the key getOpenAIClient builds the client with, Nil when it throws
getOpenAIClient(apiKey, env) == orElse(apiKey, orElse(env.OPENAI_API_KEY, Nil))

\* the key getGeminiClient builds the client with, Nil when it throws
getGeminiClient(apiKey, env) == orElse(apiKey, orElse(env.GEMINI_API_KEY, Nil))

\* invokeModel without the model-name override
invokeModel_nominalOnly(provider, model) ==
    IF provider = "gemini"
    THEN [run |-> "runGeminiAnalysis", provider |-> "gemini"]
    ELSE [run |-> "runOpenAIAnalysis", provider |-> "openai"]

\* the branch invokeModel takes: the vendor function it awaits and the
\* provider it returns beside the text
invokeModel(provider, model) ==
    IF provider = "gemini" \/ isGeminiModel(model)
    THEN [run |-> "runGeminiAnalysis", provider |-> "gemini"]
    ELSE [run |-> "runOpenAIAnalysis", provider |-> "openai"]

\* the client and API a vendor function uses
vendorCall(run, model, userMessage, systemPrompt, apiKey, env) ==
    IF run = "runGeminiAnalysis"
    THEN [ vendor |-> "gemini", api |-> "generateContent", model |-> model,
           key |-> getGeminiClient(apiKey, env),
           system |-> systemPrompt, user |-> userMessage ]
    ELSE [ vendor |-> "openai",
           api |-> IF usesResponsesApi(model) THEN "responses" ELSE "chat.completions",
           model |-> model, key |-> getOpenAIClient(apiKey, env),
           system |-> systemPrompt, user |-> userMessage ]

buildAnalysisPhaseMessage(input) ==
    [ template |-> "analysis",
      resume_text |-> input.resume_text,
      perspective |-> input.perspective,
      language |-> input.language,
      region |-> input.region,
      target_role |-> nullish(input.target_role, Nil),
      job_description |-> nullish(input.job_description, Nil) ]

\* reads analysis.recommendations.rewrite_criteria: a TypeError when the
\* analysis has no recommendations member
buildRewritePhaseMessage(input, analysis) ==
    IF ~analysis.present \/ ~analysis.recommendations
    THEN [ok |-> FALSE, message |-> [template |-> "none"]]
    ELSE [ ok |-> TRUE,
           message |-> [ template |-> "rewrite",
                         perspective |-> input.perspective,
                         language |-> input.language,
                         region |-> input.region,
                         target_role |-> nullish(input.target_role, Nil),
                         analysis |-> analysis,
                         resume_text |-> input.resume_text ] ]

NoError == [name |-> "none", message |-> <<>>, phase |-> "none",
            provider |-> "none", raw |-> <<>>, cleaned |-> <<>>,
            originalError |-> [name |-> "none", message |-> <<>>]]

\* what JSON.parse throws on a text that is not JSON
SyntaxError == [name |-> "SyntaxError", message |-> <<"Unexpected token in JSON">>]

Error(message) == [NoError EXCEPT !.name = "Error", !.message = message]

\* a constructor that stores the normalised text as raw too
PhaseParseError_cleanedAsRaw(phase, provider, raw, cleaned, originalError) ==
    [ name |-> "PhaseParseError",
      message |-> <<"Failed to parse ", phase, " phase response: ">> \o originalError.message,
      phase |-> phase, provider |-> provider, raw |-> cleaned, cleaned |-> cleaned,
      originalError |-> originalError ]

PhaseParseError(phase, provider, raw, cleaned, originalError) ==
    [ name |-> "PhaseParseError",
      message |-> <<"Failed to parse ", phase, " phase response: ">> \o originalError.message,
      phase |-> phase, provider |-> provider, raw |-> raw, cleaned |-> cleaned,
      originalError |-> originalError ]


(***************************************************************************)
(* State                                                                   *)
(***************************************************************************)
VARIABLES
    env,             \* process.env, fixed for the life of the process
    req,             \* the request being handled: endpoint, ?stream, body
    pc,              \* position of the handler
    phase,           \* state of the runPhase invocation of this request
    params,          \* RunPhaseParams of that invocation
    calls,           \* outbound vendor calls made for this request, in order
    text,            \* what invokeModel returned as text
    actualProvider,  \* what invokeModel returned as provider
    cleaned,         \* normalizePhaseResponse's result
    data,            \* the parsed phase result
    thrown,          \* the error on its way to the handler's catch
    resp,            \* the response of the handler
    nIn,             \* normaliser harness: the input text
    nStage,          \* normaliser harness: what has been applied
    nOnce,           \* normaliser harness: f(nIn)
    nTwice,          \* normaliser harness: f(f(nIn))
    page,            \* the Home page: the form, isLoading, result, error
    view,            \* the ResultsDisplay mounted for page.result, if any
    net,             \* the browser's requests: in flight, and sent so far
    stream           \* streamGeminiAnalysis: vendor sequence and ReadableStream

httpVars == <<req, pc, phase, params, calls, text, actualProvider, cleaned,
              data, thrown, resp>>

normVars == <<nIn, nStage, nOnce, nTwice>>

uiVars == <<page, view, net, stream>>

vars == <<env, req, pc, phase, params, calls, text, actualProvider, cleaned,
          data, thrown, resp, nIn, nStage, nOnce, nTwice, page, view, net, stream>>

\* no browser and no stream: the server and the pure functions on their own
NoBrowser ==
    /\ page = [open |-> FALSE]
    /\ view = [mounted |-> FALSE]
    /\ net = [open |-> FALSE]
    /\ stream = [state |-> "none"]

NoValue == [t |-> "none"]

NoText == [isNull |-> TRUE, v |-> <<>>]

NoParams == [phase |-> "none"]

NoResponse ==
    [status |-> 0, kind |-> "none", error |-> <<>>, data |-> NoValue,
     text |-> <<>>, end |-> "none"]

\* NextResponse.json({ error }, { status })
jsonError(message, status) ==
    [NoResponse EXCEPT !.status = status, !.kind = "error", !.error = message]

\* a response that validates the scores of the result it returns
jsonValue_clamped(value) ==
    [NoResponse EXCEPT !.status = 200, !.kind = "json", !.data = clampScores(value),
                       !.text = JSONstringify(clampScores(value))]

\* NextResponse.json(value): the value, and the body text it is written as
jsonValue(value) ==
    [NoResponse EXCEPT !.status = 200, !.kind = "json", !.data = value,
                       !.text = JSONstringify(value)]

\* response.toTextStreamResponse(...): the status line is sent, the body follows
textStreamResponse ==
    [NoResponse EXCEPT !.status = 200, !.kind = "stream", !.end = "open"]

\* !input.resume_text || input.resume_text.length < 100
tooShort(resume_text) ==
    \/ ~resume_text.defined
    \/ resume_text.length = 0
    \/ resume_text.length < MinResumeLength

tooLong(resume_text) == resume_text.length > MaxResumeLength

providerLabel(provider) == IF provider = "openai" THEN "OpenAI" ELSE "Google Gemini"

(***************************************************************************)
(* POST /api/analyze                                                       *)
(***************************************************************************)
\* the handler up to its call of runPhase: the response it returns, or
\* kind "none" when it goes on to runPhase
analyzeValidate(streamRequested, input) ==
    IF streamRequested
    THEN jsonError(<<"Streaming is not available for multi-phase analysis yet.">>, 501)
    ELSE IF tooShort(input.resume_text)
    THEN jsonError(<<"Resume text must be at least 100 characters">>, 400)
    ELSE IF tooLong(input.resume_text)
    THEN jsonError(<<"Resume text must not exceed 15,000 characters">>, 400)
    ELSE NoResponse

\* a catch block that answers with the message of the error it caught
analyzeCatch_echo(error) ==
    jsonError(error.message, IF error.name = "PhaseParseError" THEN 502 ELSE 500)

\* a catch block without the PhaseParseError case
analyzeCatch_generic(error) ==
    jsonError(<<"Failed to analyze resume. Please try again.">>, 500)

\* the catch block of the handler
analyzeCatch(error) ==
    IF error.name = "PhaseParseError"
    THEN jsonError(<<"The ", error.phase, " response was invalid JSON. Please retry.">>, 502)
    ELSE jsonError(<<"Failed to analyze resume. Please try again.">>, 500)

AnalyzePOST ==
    /\ pc = "idle"
    /\ \E streamRequested \in BOOLEAN, input \in AnalyzeInputs :
        LET r == analyzeValidate(streamRequested, input) IN
        /\ req' = [endpoint |-> "analyze", stream |-> streamRequested, input |-> input]
        /\ IF r.kind # "none"
           THEN /\ resp' = r
                /\ pc' = "responded"
                /\ phase' = "none"
                /\ params' = NoParams
           ELSE /\ resp' = NoResponse
                /\ pc' = "runPhase"
                /\ phase' = "Pending"
                /\ params' = [ phase |-> "analysis",
                               provider |-> input.provider,
                               model |-> input.model,
                               systemPrompt |-> "ANALYSIS_PHASE_PROMPT",
                               userMessage |-> buildAnalysisPhaseMessage(input),
                               apiKey |-> nullish(input.provider_api_key, Nil) ]
    /\ calls' = <<>>
    /\ text' = NoText
    /\ actualProvider' = "none"
    /\ cleaned' = <<>>
    /\ data' = NoValue
    /\ thrown' = NoError
    /\ UNCHANGED <<env, normVars, uiVars>>

\* runPhase calls invokeModel, which builds the vendor client and issues the
\* one request; a missing credential throws before the request
RunPhaseInvoke ==
    /\ pc = "runPhase"
    /\ LET b == invokeModel(params.provider, params.model)
           c == vendorCall(b.run, params.model, params.userMessage,
                           params.systemPrompt, params.apiKey, env)
       IN /\ phase' = "Invoked"
          /\ IF c.key = Nil
             THEN /\ thrown' = Error(<<"Missing ", providerLabel(c.vendor), " API key">>)
                  /\ pc' = "catch"
                  /\ calls' = calls
             ELSE /\ calls' = Append(calls, c)
                  /\ pc' = "awaitModel"
                  /\ thrown' = thrown
    /\ UNCHANGED <<env, req, params, text, actualProvider, cleaned, data, resp, normVars, uiVars>>

\* the vendor call settles: invokeModel returns { text, provider } or the
\* vendor's error propagates
ModelReply ==
    /\ pc = "awaitModel"
    /\ \E reply \in VendorReplies :
        IF reply.kind = "error"
        THEN /\ thrown' = Error(<<"vendor error">>)
             /\ pc' = "catch"
             /\ UNCHANGED <<text, actualProvider>>
        ELSE /\ text' = [isNull |-> reply.kind = "null", v |-> reply.text]
             /\ actualProvider' = invokeModel(params.provider, params.model).provider
             /\ pc' = "gotText"
             /\ thrown' = thrown
    /\ UNCHANGED <<env, req, phase, params, calls, cleaned, data, resp, normVars, uiVars>>

\* runPhase asking the model again, once, after an empty response
RunPhaseNormalize_retry ==
    /\ pc = "gotText"
    /\ IF (text.isNull \/ text.v = <<>>) /\ Len(calls) < 2
       THEN /\ phase' = "Pending"
            /\ pc' = "runPhase"
            /\ UNCHANGED <<thrown, cleaned>>
       ELSE IF text.isNull \/ text.v = <<>>
       THEN /\ phase' = "EmptyResponseFailure"
            /\ thrown' = Error(<<"Empty ", params.phase, " phase response from ", actualProvider>>)
            /\ pc' = "catch"
            /\ cleaned' = cleaned
       ELSE /\ phase' = "NormalizedOk"
            /\ cleaned' = normalizePhaseResponse(actualProvider, text.v)
            /\ pc' = "parse"
            /\ thrown' = thrown
    /\ UNCHANGED <<env, req, params, calls, text, actualProvider, data, resp, normVars, uiVars>>

\* runPhase choosing the normalisation by the requested provider
RunPhaseNormalize_byRequested ==
    /\ pc = "gotText"
    /\ IF text.isNull \/ text.v = <<>>
       THEN /\ phase' = "EmptyResponseFailure"
            /\ thrown' = Error(<<"Empty ", params.phase, " phase response from ", actualProvider>>)
            /\ pc' = "catch"
            /\ cleaned' = cleaned
       ELSE /\ phase' = "NormalizedOk"
            /\ cleaned' = normalizePhaseResponse(params.provider, text.v)
            /\ pc' = "parse"
            /\ thrown' = thrown
    /\ UNCHANGED <<env, req, params, calls, text, actualProvider, data, resp, normVars, uiVars>>

\* runPhase naming the requested provider, and not the one called, in the
\* empty-response error
RunPhaseNormalize_nominal ==
    /\ pc = "gotText"
    /\ IF text.isNull \/ text.v = <<>>
       THEN /\ phase' = "EmptyResponseFailure"
            /\ thrown' = Error(<<"Empty ", params.phase, " phase response from ", params.provider>>)
            /\ pc' = "catch"
            /\ cleaned' = cleaned
       ELSE /\ phase' = "NormalizedOk"
            /\ cleaned' = normalizePhaseResponse(actualProvider, text.v)
            /\ pc' = "parse"
            /\ thrown' = thrown
    /\ UNCHANGED <<env, req, params, calls, text, actualProvider, data, resp, normVars, uiVars>>

\* if (!text) throw ...; const cleaned = normalizePhaseResponse(actualProvider, text)
RunPhaseNormalize ==
    /\ pc = "gotText"
    /\ IF text.isNull \/ text.v = <<>>
       THEN /\ phase' = "EmptyResponseFailure"
            /\ thrown' = Error(<<"Empty ", params.phase, " phase response from ", actualProvider>>)
            /\ pc' = "catch"
            /\ cleaned' = cleaned
       ELSE /\ phase' = "NormalizedOk"
            /\ cleaned' = normalizePhaseResponse(actualProvider, text.v)
            /\ pc' = "parse"
            /\ thrown' = thrown
    /\ UNCHANGED <<env, req, params, calls, text, actualProvider, data, resp, normVars, uiVars>>

\* JSON.parse(cleaned): the parsed value is returned, or PhaseParseError thrown
RunPhaseParse ==
    /\ pc = "parse"
    /\ LET r == JSONparse(cleaned) IN
       IF r.ok
       THEN /\ phase' = "ParsedOk"
            /\ data' = r.val
            /\ pc' = "return"
            /\ thrown' = thrown
       ELSE /\ phase' = "ParseFailure"
            /\ thrown' = PhaseParseError(params.phase, actualProvider, text.v, cleaned,
                                            SyntaxError)
            /\ pc' = "catch"
            /\ data' = data
    /\ UNCHANGED <<env, req, params, calls, text, actualProvider, cleaned, resp, normVars, uiVars>>

\* return NextResponse.json(analysisData)
AnalyzeReturn ==
    /\ pc = "return"
    /\ resp' = jsonValue(data)
    /\ pc' = "responded"
    /\ UNCHANGED <<env, req, phase, params, calls, text, actualProvider, cleaned,
                   data, thrown, normVars, uiVars>>

AnalyzeCatch ==
    /\ pc = "catch"
    /\ resp' = analyzeCatch(thrown)
    /\ pc' = "responded"
    /\ UNCHANGED <<env, req, phase, params, calls, text, actualProvider, cleaned,
                   data, thrown, normVars, uiVars>>


(***************************************************************************)
(* POST /api/rewrite                                                       *)
(***************************************************************************)
\* the handler without its check of input.analysis
rewritePOST_noAnalysisCheck(input) ==
    LET provider == input.provider
        apiKey == nullish(input.provider_api_key,
                          nullish(IF provider = "openai" THEN env.OPENAI_API_KEY
                                                         ELSE env.GEMINI_API_KEY,
                                  Nil))
        rewriteMessage == buildRewritePhaseMessage(input, input.analysis)
    IN
    IF tooShort(input.resume_text)
    THEN [resp |-> jsonError(<<"Resume text must be at least 100 characters">>, 400),
          calls |-> <<>>]
    ELSE IF falsy(apiKey)
    THEN [resp |-> jsonError(<<"Missing ", providerLabel(provider), " API key">>, 400),
          calls |-> <<>>]
    ELSE IF ~rewriteMessage.ok
    THEN [resp |-> jsonError(<<"Failed to rewrite resume. Please try again.">>, 500),
          calls |-> <<>>]
    ELSE [resp |-> textStreamResponse,
          calls |-> << [ vendor |-> IF provider = "openai" THEN "openai" ELSE "gemini",
                         api |-> "streamText",
                         model |-> input.model,
                         key |-> apiKey,
                         system |-> "REWRITE_PHASE_PROMPT",
                         user |-> rewriteMessage.message ] >>]

\* the handler up to its return: the response, and the vendor request that
\* streamText has started (none when the handler returned before it)
rewritePOST(input) ==
    LET provider == input.provider
        apiKey == nullish(input.provider_api_key,
                          nullish(IF provider = "openai" THEN env.OPENAI_API_KEY
                                                         ELSE env.GEMINI_API_KEY,
                                  Nil))
        rewriteMessage == buildRewritePhaseMessage(input, input.analysis)
    IN
    IF tooShort(input.resume_text)
    THEN [resp |-> jsonError(<<"Resume text must be at least 100 characters">>, 400),
          calls |-> <<>>]
    ELSE IF ~input.analysis.present
    THEN [resp |-> jsonError(<<"Analysis data is required">>, 400), calls |-> <<>>]
    ELSE IF falsy(apiKey)
    THEN [resp |-> jsonError(<<"Missing ", providerLabel(provider), " API key">>, 400),
          calls |-> <<>>]
    ELSE IF ~rewriteMessage.ok
    THEN [resp |-> jsonError(<<"Failed to rewrite resume. Please try again.">>, 500),
          calls |-> <<>>]
    ELSE [resp |-> textStreamResponse,
          calls |-> << [ vendor |-> IF provider = "openai" THEN "openai" ELSE "gemini",
                         api |-> "streamText",
                         model |-> input.model,
                         key |-> apiKey,
                         system |-> "REWRITE_PHASE_PROMPT",
                         user |-> rewriteMessage.message ] >>]

RewritePOST ==
    /\ pc = "idle"
    /\ \E input \in RewriteInputs :
        LET r == rewritePOST(input) IN
        /\ req' = [endpoint |-> "rewrite", stream |-> FALSE, input |-> input]
        /\ resp' = r.resp
        /\ calls' = r.calls
        /\ pc' = IF r.resp.kind = "stream" THEN "streaming" ELSE "responded"
    /\ phase' = "none"
    /\ params' = NoParams
    /\ text' = NoText
    /\ actualProvider' = "none"
    /\ cleaned' = <<>>
    /\ data' = NoValue
    /\ thrown' = NoError
    /\ UNCHANGED <<env, normVars, uiVars>>

\* the vendor's text is piped to the client as it arrives; the handler has
\* returned and reads none of it.  A vendor failure ends the stream early,
\* as an errored stream or as a closed one.
RewriteStream ==
    /\ pc = "streaming"
    /\ \E t \in ModelTexts, end \in {"closed", "errored"} :
        resp' = [resp EXCEPT !.text = t, !.end = end]
    /\ pc' = "responded"
    /\ UNCHANGED <<env, req, phase, params, calls, text, actualProvider, cleaned,
                   data, thrown, normVars, uiVars>>

\* the response has been sent; nothing of the request is kept
RequestDone ==
    /\ pc = "responded"
    /\ pc' = "idle"
    /\ req' = [endpoint |-> "none", stream |-> FALSE, input |-> [none |-> TRUE]]
    /\ phase' = "none"
    /\ params' = NoParams
    /\ calls' = <<>>
    /\ text' = NoText
    /\ actualProvider' = "none"
    /\ cleaned' = <<>>
    /\ data' = NoValue
    /\ thrown' = NoError
    /\ resp' = NoResponse
    /\ UNCHANGED <<env, normVars, uiVars>>

(***************************************************************************)
(* The server                                                              *)
(***************************************************************************)
Init ==
    /\ env \in Environments
    /\ req = [endpoint |-> "none", stream |-> FALSE, input |-> [none |-> TRUE]]
    /\ pc = "idle"
    /\ phase = "none"
    /\ params = NoParams
    /\ calls = <<>>
    /\ text = NoText
    /\ actualProvider = "none"
    /\ cleaned = <<>>
    /\ data = NoValue
    /\ thrown = NoError
    /\ resp = NoResponse
    /\ nIn = <<>>
    /\ nStage = "off"
    /\ nOnce = <<>>
    /\ nTwice = <<>>
    /\ NoBrowser

Next ==
    \/ AnalyzePOST
    \/ RunPhaseInvoke
    \/ ModelReply
    \/ RunPhaseNormalize
    \/ RunPhaseParse
    \/ AnalyzeReturn
    \/ AnalyzeCatch
    \/ RewritePOST
    \/ RewriteStream
    \/ RequestDone

Spec == Init /\ [][Next]_vars

(***************************************************************************)
(* The single-phase analyze route: the POST handler that builds its prompt *)
(* from the whole request body, streams Gemini answers on ?stream=true and *)
(* cleans and parses the answer itself.                                    *)
(***************************************************************************)
\* JSON.stringify(input, null, 2) inside the fixed template: every member of
\* the request body is in the text
singlePhaseMessage(input) == [template |-> "single", input |-> input]

\* executeAnalysis: the adapter that runs, and the provider it reports
executeAnalysis(provider, model) ==
    IF provider = "gemini" \/ isGeminiModel(model)
    THEN [run |-> "runGeminiAnalysis", provider |-> "gemini"]
    ELSE [run |-> "runOpenAIAnalysis", provider |-> "openai"]

\* the handler up to its first await of a vendor answer: the response it has
\* returned (kind "none" when it is still waiting) and the vendor request made
singlePhasePOST(streamRequested, input) ==
    LET userMessage == singlePhaseMessage(input)
        model == input.model
        provider == input.provider
        apiKey == nullish(input.provider_api_key, Nil)
        failed == [resp |-> jsonError(<<"Failed to analyze resume. Please try again.">>, 500),
                   calls |-> <<>>]
    IN
    IF tooShort(input.resume_text)
    THEN [resp |-> jsonError(<<"Resume text must be at least 100 characters">>, 400),
          calls |-> <<>>]
    ELSE IF tooLong(input.resume_text)
    THEN [resp |-> jsonError(<<"Resume text must not exceed 15,000 characters">>, 400),
          calls |-> <<>>]
    ELSE IF streamRequested /\ (provider = "gemini" \/ isGeminiModel(model))
    THEN IF getGeminiClient(apiKey, env) = Nil
         THEN failed
         ELSE [resp |-> textStreamResponse,
               calls |-> << [ vendor |-> "gemini", api |-> "generateContentStream",
                              model |-> model, key |-> getGeminiClient(apiKey, env),
                              system |-> "SYSTEM_PROMPT", user |-> userMessage ] >>]
    ELSE LET c == vendorCall(executeAnalysis(provider, model).run, model, userMessage,
                             "SYSTEM_PROMPT", apiKey, env)
         IN IF c.key = Nil THEN failed ELSE [resp |-> NoResponse, calls |-> <<c>>]

SinglePhasePOST ==
    /\ pc = "idle"
    /\ \E streamRequested \in BOOLEAN, input \in AnalyzeInputs :
        LET r == singlePhasePOST(streamRequested, input) IN
        /\ req' = [endpoint |-> "analyze-single", stream |-> streamRequested, input |-> input]
        /\ resp' = r.resp
        /\ calls' = r.calls
        /\ pc' = IF r.resp.kind = "stream" THEN "streamingAnalysis"
                 ELSE IF r.resp.kind = "none" THEN "awaitAnalysis"
                 ELSE "responded"
    /\ phase' = "none"
    /\ params' = NoParams
    /\ text' = NoText
    /\ actualProvider' = "none"
    /\ cleaned' = <<>>
    /\ data' = NoValue
    /\ thrown' = NoError
    /\ UNCHANGED <<env, normVars, uiVars>>

\* streamGeminiAnalysis pipes the vendor's chunks into the response body and
\* closes it, or puts it into the error state when the vendor sequence fails
SinglePhaseStream ==
    /\ pc = "streamingAnalysis"
    /\ \E t \in ModelTexts, end \in {"closed", "errored"} :
        resp' = [resp EXCEPT !.text = t, !.end = end]
    /\ pc' = "responded"
    /\ UNCHANGED <<env, req, phase, params, calls, text, actualProvider, cleaned,
                   data, thrown, normVars, uiVars>>

\* executeAnalysis settles and the handler runs to its return: empty answer,
\* clean-up by the provider called, JSON.parse, and the catch block
SinglePhaseReply ==
    /\ pc = "awaitAnalysis"
    /\ \E reply \in VendorReplies :
        LET provider == executeAnalysis(req.input.provider, req.input.model).provider
            cleanedResponse == IF provider = "gemini" THEN cleanJsonResponse(reply.text)
                               ELSE repairOpenAIJsonUntrimmed(reply.text)
            result == JSONparse(cleanedResponse)
        IN
        IF reply.kind = "error"
        THEN /\ thrown' = Error(<<"vendor error">>)
             /\ resp' = jsonError(<<"Failed to analyze resume. Please try again.">>, 500)
             /\ UNCHANGED <<text, actualProvider, cleaned, data>>
        ELSE /\ text' = [isNull |-> reply.kind = "null", v |-> reply.text]
             /\ actualProvider' = provider
             /\ IF reply.kind = "null" \/ reply.text = <<>>
                THEN /\ thrown' = Error(<<"Empty response from AI">>)
                     /\ resp' = jsonError(<<"Failed to analyze resume. Please try again.">>, 500)
                     /\ UNCHANGED <<cleaned, data>>
                ELSE /\ cleaned' = cleanedResponse
                     /\ IF result.ok
                        THEN /\ data' = result.val
                             /\ resp' = jsonValue(result.val)
                             /\ thrown' = thrown
                        ELSE /\ data' = data
                             /\ thrown' = [NoError EXCEPT !.name = "SyntaxError",
                                                          !.message = SyntaxError.message]
                             /\ resp' = jsonError(<<"Invalid JSON response from AI. Please try again.">>, 500)
    /\ pc' = "responded"
    /\ UNCHANGED <<env, req, phase, params, calls, normVars, uiVars>>

NextSinglePhase ==
    \/ SinglePhasePOST
    \/ SinglePhaseStream
    \/ SinglePhaseReply
    \/ RequestDone

SpecSinglePhase == Init /\ [][NextSinglePhase]_vars

(***************************************************************************)
(* The normaliser on its own: every text of up to MaxTokens tokens is      *)
(* cleaned once, and the result cleaned again.                             *)
(***************************************************************************)
RECURSIVE flatten(_)
flatten(ts) == IF ts = <<>> THEN <<>> ELSE Head(ts) \o flatten(Tail(ts))

NormTexts ==
    LET Tokens == { Fence, <<"j", "s", "o", "n">>, <<BackTick>>, <<" ">>, <<"\n">>,
                    <<"{", "}">>, <<"x">> }
    IN { flatten(ts) : ts \in UNION { [1..k -> Tokens] : k \in 0..MaxTokens } }

InitNorm ==
    /\ env = [OPENAI_API_KEY |-> Nil, GEMINI_API_KEY |-> Nil]
    /\ req = [endpoint |-> "none", stream |-> FALSE, input |-> [none |-> TRUE]]
    /\ pc = "idle"
    /\ phase = "none"
    /\ params = NoParams
    /\ calls = <<>>
    /\ text = NoText
    /\ actualProvider = "none"
    /\ cleaned = <<>>
    /\ data = NoValue
    /\ thrown = NoError
    /\ resp = NoResponse
    /\ nIn \in NormTexts
    /\ nStage = "input"
    /\ nOnce = <<>>
    /\ nTwice = <<>>
    /\ NoBrowser

CleanOnce ==
    /\ nStage = "input"
    /\ nOnce' = cleanJsonResponse(nIn)
    /\ nStage' = "once"
    /\ UNCHANGED <<env, httpVars, uiVars, nIn, nTwice>>

CleanTwice ==
    /\ nStage = "once"
    /\ nTwice' = cleanJsonResponse(nOnce)
    /\ nStage' = "twice"
    /\ UNCHANGED <<env, httpVars, uiVars, nIn, nOnce>>

NextNorm == CleanOnce \/ CleanTwice

SpecNorm == InitNorm /\ [][NextNorm]_vars

(***************************************************************************)
(* repairOpenAIJson on its own: every text of up to MaxTokens tokens of    *)
(* JSON punctuation, scalars, white space and prose is repaired.           *)
(***************************************************************************)
RepairTexts ==
    LET RepairTokens ==
            { <<"{">>, <<"}">>, <<"[">>, <<"]">>, <<",">>, <<"1">>, <<"n", "u", "l", "l">>,
              <<"\"", "a", "\"">>, <<"\"", "a", "\"", ":">>, <<" ">>, <<"\n">>, <<"x">> }
    IN { flatten(ts) : ts \in UNION { [1..k -> RepairTokens] : k \in 0..MaxTokens } }

InitRepair ==
    /\ env = [OPENAI_API_KEY |-> Nil, GEMINI_API_KEY |-> Nil]
    /\ req = [endpoint |-> "none", stream |-> FALSE, input |-> [none |-> TRUE]]
    /\ pc = "idle"
    /\ phase = "none"
    /\ params = NoParams
    /\ calls = <<>>
    /\ text = NoText
    /\ actualProvider = "none"
    /\ cleaned = <<>>
    /\ data = NoValue
    /\ thrown = NoError
    /\ resp = NoResponse
    /\ nIn \in RepairTexts
    /\ nStage = "input"
    /\ nOnce = <<>>
    /\ nTwice = <<>>
    /\ NoBrowser

Repair ==
    /\ nStage = "input"
    /\ nOnce' = repairOpenAIJson(nIn)
    /\ nStage' = "repaired"
    /\ UNCHANGED <<env, httpVars, uiVars, nIn, nTwice>>

NextRepair == Repair

SpecRepair == InitRepair /\ [][NextRepair]_vars

(***************************************************************************)
(* runPhase on the Gemini path when the model fences its JSON: the request *)
(* is in flight, the model's reply is a valid document inside a fenced     *)
(* code block, and runPhase normalises, parses and returns.                *)
(***************************************************************************)
FencePadding == { <<>>, <<"\n">> }

\* [padding] ``` or ```json [padding] document [padding] ``` [padding]
fenced(lead, open, before, doc, after, trail) ==
    lead \o open \o before \o doc \o after \o Fence \o trail

FencedRequests ==
    { i \in AnalyzeInputs :
        /\ analyzeValidate(FALSE, i).kind = "none"
        /\ i.model = <<"g", "e", "m", "i", "n", "i", "-", "2">>
        /\ i.provider_api_key = "sk-user"
        /\ i.job_description = Nil }

InitFenced ==
    /\ env = [OPENAI_API_KEY |-> Nil, GEMINI_API_KEY |-> Nil]
    /\ \E input \in FencedRequests :
        /\ req = [endpoint |-> "analyze", stream |-> FALSE, input |-> input]
        /\ params = [ phase |-> "analysis",
                      provider |-> input.provider,
                      model |-> input.model,
                      systemPrompt |-> "ANALYSIS_PHASE_PROMPT",
                      userMessage |-> buildAnalysisPhaseMessage(input),
                      apiKey |-> nullish(input.provider_api_key, Nil) ]
        /\ calls = << vendorCall(invokeModel(input.provider, input.model).run,
                                 input.model, buildAnalysisPhaseMessage(input),
                                 "ANALYSIS_PHASE_PROMPT", input.provider_api_key, env) >>
    /\ pc = "awaitModel"
    /\ phase = "Invoked"
    /\ text = NoText
    /\ actualProvider = "none"
    /\ cleaned = <<>>
    /\ data = NoValue
    /\ thrown = NoError
    /\ resp = NoResponse
    /\ nIn \in ({ t \in RepairTexts : JSONparse(t).ok })
    /\ nStage = "fenced"
    /\ nOnce = <<>>
    /\ nTwice = <<>>
    /\ NoBrowser

\* the model's reply is the document nIn inside a fenced code block
ModelReplyFenced ==
    /\ pc = "awaitModel"
    /\ nStage = "fenced"
    /\ \E lead \in FencePadding, open \in {Fence, FenceJson}, before \in FencePadding,
          after \in FencePadding, trail \in FencePadding :
        text' = [isNull |-> FALSE, v |-> fenced(lead, open, before, nIn, after, trail)]
    /\ actualProvider' = invokeModel(params.provider, params.model).provider
    /\ pc' = "gotText"
    /\ UNCHANGED <<env, req, phase, params, calls, cleaned, data, thrown, resp, normVars, uiVars>>

NextFenced ==
    \/ ModelReplyFenced
    \/ RunPhaseNormalize
    \/ RunPhaseParse
    \/ AnalyzeReturn

SpecFenced == InitFenced /\ [][NextFenced]_vars

(***************************************************************************)
(* extractJsonObjectContainingKey of the results view, on its own: every   *)
(* text of up to MaxTokens tokens is searched for the key "k".             *)
(***************************************************************************)
\* source.indexOf(token), 1-based; 0 when the token does not occur
indexOf(source, token) ==
    IF \E i \in 1..Len(source) : matchAt(source, i, token)
    THEN CHOOSE i \in 1..Len(source) :
            /\ matchAt(source, i, token)
            /\ \A j \in 1..(i - 1) : ~matchAt(source, j, token)
    ELSE 0

\* while (start >= 0 && source[start] !== '{') start -= 1;  0 when none
braceBefore(source, start) ==
    LET braces == { j \in 1..start : source[j] = "{" } IN
    IF braces = {} THEN 0
    ELSE CHOOSE j \in braces : \A k \in braces : k <= j

\* the for loop from index on: the index of the closing brace that brings
\* depth back to 0, or 0 when the text ends first
closingBrace(source, index, depth, inString, escaped) ==
    LET \* one pass of the loop body, on the character at n; end is set by the
        \* return and the passes after it change nothing
        pass(st, n) ==
            LET char == source[n] IN
            IF st.end # 0 THEN st
            ELSE IF st.escaped THEN [st EXCEPT !.escaped = FALSE]
            ELSE IF char = "\\" THEN [st EXCEPT !.escaped = TRUE]
            ELSE IF char = "\"" THEN [st EXCEPT !.inString = ~@]
            ELSE IF st.inString THEN st
            ELSE IF char = "{" THEN [st EXCEPT !.depth = @ + 1]
            ELSE IF char = "}"
            THEN IF st.depth - 1 = 0 THEN [st EXCEPT !.end = n]
                 ELSE [st EXCEPT !.depth = @ - 1]
            ELSE st
        \* the passes on lo..hi in order: those on the first half, and those on
        \* the second half unless the loop has returned
        RECURSIVE passes(_, _, _)
        passes(st, lo, hi) ==
            IF lo > hi THEN st
            ELSE IF lo = hi THEN pass(st, lo)
            ELSE LET mid == (lo + hi) \div 2
                     half == passes(st, lo, mid)
                 IN IF half.end # 0 THEN half ELSE passes(half, mid + 1, hi)
    IN passes([ depth |-> depth, inString |-> inString, escaped |-> escaped,
                end |-> 0 ], index, Len(source)).end

NoSlice == [isNull |-> TRUE, v |-> <<>>]

extractJsonObjectContainingKey(source, key) ==
    LET keyToken == <<"\"">> \o key \o <<"\"">>
        keyIndex == indexOf(source, keyToken)
        start == braceBefore(source, keyIndex)
        end == closingBrace(source, start, 0, FALSE, FALSE)
    IN IF keyIndex = 0 THEN NoSlice
       ELSE IF start = 0 THEN NoSlice
       ELSE IF end = 0 THEN NoSlice
       ELSE [isNull |-> FALSE, v |-> SubSeq(source, start, end)]

ExtractTexts ==
    LET ExtractTokens ==
            { <<"{">>, <<"}">>, <<"\"", "k", "\"">>, <<"\"">>, <<"\\">>, <<":", "1">>,
              <<",">>, <<" ">> }
    IN { flatten(ts) : ts \in UNION { [1..k -> ExtractTokens] : k \in 0..MaxTokens } }

InitExtract ==
    /\ env = [OPENAI_API_KEY |-> Nil, GEMINI_API_KEY |-> Nil]
    /\ req = [endpoint |-> "none", stream |-> FALSE, input |-> [none |-> TRUE]]
    /\ pc = "idle"
    /\ phase = "none"
    /\ params = NoParams
    /\ calls = <<>>
    /\ text = NoText
    /\ actualProvider = "none"
    /\ cleaned = <<>>
    /\ data = NoValue
    /\ thrown = NoError
    /\ resp = NoResponse
    /\ nIn \in ExtractTexts
    /\ nStage = "input"
    /\ nOnce = <<>>
    /\ nTwice = <<>>
    /\ NoBrowser

\* the function returns a slice of the text
ExtractFound ==
    /\ nStage = "input"
    /\ ~extractJsonObjectContainingKey(nIn, <<"k">>).isNull
    /\ nOnce' = extractJsonObjectContainingKey(nIn, <<"k">>).v
    /\ nStage' = "extracted"
    /\ UNCHANGED <<env, httpVars, uiVars, nIn, nTwice>>

\* the function returns null
ExtractNull ==
    /\ nStage = "input"
    /\ extractJsonObjectContainingKey(nIn, <<"k">>).isNull
    /\ nOnce' = <<>>
    /\ nStage' = "null"
    /\ UNCHANGED <<env, httpVars, uiVars, nIn, nTwice>>

NextExtract == ExtractFound \/ ExtractNull

SpecExtract == InitExtract /\ [][NextExtract]_vars

(***************************************************************************)
(* streamGeminiAnalysis: the vendor's chunk sequence piped into a          *)
(* ReadableStream of bytes, and readStreamToString reading it.  The        *)
(* response body reaches the reader in order, with the end it was given.   *)
(***************************************************************************)
MaxChunks == 3

\* TextEncoder.encode: the UTF-8 bytes of the characters
RECURSIVE encode(_)
encode(chars) ==
    IF chars = <<>> THEN <<>>
    ELSE (IF Head(chars) = "e'" THEN <<195, 169>>
          ELSE IF Head(chars) = "a" THEN <<97>> ELSE <<98>>) \o encode(Tail(chars))

\* TextDecoder.decode(bytes, { stream: true }) after the bytes held back:
\* the characters read, and the bytes of an incomplete character
RECURSIVE decode(_)
decode(bytes) ==
    IF bytes = <<>> THEN [chars |-> <<>>, held |-> <<>>]
    ELSE IF Head(bytes) = 97 THEN [decode(Tail(bytes)) EXCEPT !.chars = <<"a">> \o @]
    ELSE IF Head(bytes) = 98 THEN [decode(Tail(bytes)) EXCEPT !.chars = <<"b">> \o @]
    ELSE IF Head(bytes) = 195
    THEN IF Len(bytes) = 1 THEN [chars |-> <<>>, held |-> bytes]
         ELSE IF bytes[2] = 169
         THEN [decode(SubSeq(bytes, 3, Len(bytes))) EXCEPT !.chars = <<"e'">> \o @]
         ELSE [decode(Tail(bytes)) EXCEPT !.chars = <<"?">> \o @]
    ELSE [decode(Tail(bytes)) EXCEPT !.chars = <<"?">> \o @]

\* texts.join(separator)
RECURSIVE join(_, _)
join(texts, separator) ==
    IF texts = <<>> THEN <<>>
    ELSE IF Len(texts) = 1 THEN texts[1]
    ELSE texts[1] \o separator \o join(Tail(texts), separator)

extractText(chunk) ==
    IF chunk.shape = "text" THEN chunk.texts[1]
    ELSE IF chunk.shape \in {"candidates", "parts"} THEN join(chunk.texts, <<>>)
    ELSE <<>>

\* the vendor sequences of up to n chunks.  The iterator may yield a chunk
\* with a text, with an empty text, with candidates, with content parts, and
\* one that is no object.
RECURSIVE ChunkSeqs(_)
ChunkSeqs(n) ==
    LET Chunks == { [shape |-> "text", texts |-> << <<"a">> >>],
                    [shape |-> "text", texts |-> << <<"e'", "b">> >>],
                    [shape |-> "text", texts |-> << <<>> >>],
                    [shape |-> "candidates", texts |-> << <<"b">>, <<"a">> >>],
                    [shape |-> "parts", texts |-> << <<"a">>, <<>> >>],
                    [shape |-> "other", texts |-> <<>>] }
    IN IF n = 0 THEN { <<>> }
       ELSE ChunkSeqs(n - 1) \cup
            { Append(q, c) : q \in { r \in ChunkSeqs(n - 1) : Len(r) = n - 1 },
                             c \in Chunks }

\* controller.close()
close(controller) ==
    [controller EXCEPT !.closeRequested = TRUE,
                       !.state = IF controller.queue = <<>> THEN "closed" ELSE @]

\* a catch block that closes the stream
startCatch_close(controller) == close(controller)

\* catch (error) { controller.error(error) }: the stream goes into the error
\* state and the chunks still queued are dropped
startCatch(controller) ==
    IF controller.state # "readable" THEN controller
    ELSE [controller EXCEPT !.state = "errored", !.queue = <<>>]

InitStream ==
    /\ env \in Environments
    /\ req = [endpoint |-> "none", stream |-> FALSE, input |-> [none |-> TRUE]]
    /\ pc = "idle"
    /\ phase = "none"
    /\ params = NoParams
    /\ calls = <<>>
    /\ text = NoText
    /\ actualProvider = "none"
    /\ cleaned = <<>>
    /\ data = NoValue
    /\ thrown = NoError
    /\ resp = NoResponse
    /\ nIn = <<>>
    /\ nStage = "off"
    /\ nOnce = <<>>
    /\ nTwice = <<>>
    /\ page = [open |-> FALSE]
    /\ view = [mounted |-> FALSE]
    /\ net = [open |-> FALSE]
    /\ \E plan \in ChunkSeqs(MaxChunks), ending \in {"done", "fail"} :
        stream = [ state |-> "readable", closeRequested |-> FALSE, queue |-> <<>>,
                   plan |-> plan, ending |-> ending, vendor |-> "running",
                   yielded |-> <<>>, ends |-> 0,
                   reader |-> "reading", result |-> <<>>, held |-> <<>>,
                   got |-> <<>> ]

\* one turn of the for await loop: the vendor yields a chunk.  yielded is the
\* history of the texts enqueued.
StreamChunk ==
    /\ stream.state # "none"
    /\ stream.vendor = "running"
    /\ stream.plan # <<>>
    /\ LET chunkText == extractText(Head(stream.plan))
           next == [stream EXCEPT !.plan = Tail(@)]
       IN stream' = IF chunkText # <<>>
                    THEN [next EXCEPT !.queue = Append(@, encode(chunkText)),
                                      !.yielded = Append(@, chunkText)]
                    ELSE next
    /\ UNCHANGED <<env, httpVars, normVars, page, view, net>>

\* the vendor sequence completes: the loop ends and controller.close() runs.
\* ends counts the calls that end the stream.
StreamComplete ==
    /\ stream.state # "none"
    /\ stream.vendor = "running"
    /\ stream.plan = <<>>
    /\ stream.ending = "done"
    /\ stream' = [close(stream) EXCEPT !.vendor = "done", !.ends = @ + 1]
    /\ UNCHANGED <<env, httpVars, normVars, page, view, net>>

\* the vendor sequence fails: the iterator throws and the catch block runs
StreamFail ==
    /\ stream.state # "none"
    /\ stream.vendor = "running"
    /\ stream.plan = <<>>
    /\ stream.ending = "fail"
    /\ stream' = [startCatch(stream) EXCEPT !.vendor = "failed", !.ends = @ + 1]
    /\ UNCHANGED <<env, httpVars, normVars, page, view, net>>

\* one reader.read() of readStreamToString that settles: a chunk is decoded
\* and appended, done ends the loop and flushes the decoder, an errored
\* stream rejects
StreamRead ==
    /\ stream.state # "none"
    /\ stream.reader = "reading"
    /\ \/ /\ stream.state = "readable"
          /\ stream.queue # <<>>
          /\ LET d == decode(stream.held \o Head(stream.queue)) IN
             stream' = [stream EXCEPT
                           !.queue = Tail(@),
                           !.state = IF stream.closeRequested /\ Len(stream.queue) = 1
                                     THEN "closed" ELSE @,
                           !.result = @ \o d.chars,
                           !.held = d.held,
                           !.got = Append(@, Head(stream.queue))]
       \/ /\ stream.state = "closed"
          /\ stream' = [stream EXCEPT !.reader = "done",
                                      !.result = IF stream.held = <<>> THEN @
                                                 ELSE @ \o <<"?">>,
                                      !.held = <<>>]
       \/ /\ stream.state = "errored"
          /\ stream' = [stream EXCEPT !.reader = "failed"]
    /\ UNCHANGED <<env, httpVars, normVars, page, view, net>>

NextStream ==
    \/ StreamChunk
    \/ StreamComplete
    \/ StreamFail
    \/ StreamRead

SpecStream == InitStream /\ [][NextStream]_vars

(***************************************************************************)
(* The browser: the Home page with its input form, and the analyze route   *)
(* answering its requests.                                                 *)
(***************************************************************************)
MaxAnalyses == 2
MaxRewrites == 2

MODEL_OPTIONS ==
    << [value |-> <<"g", "p", "t", "-", "4", "o", "-", "m", "i", "n", "i">>, provider |-> "openai"],
       [value |-> <<"g", "e", "m", "i", "n", "i", "-", "2", ".", "5", "-", "f", "l",
                    "a", "s", "h">>,
        provider |-> "gemini"] >>

\* MODEL_OPTIONS.find((option) => option.provider === provider)?.value
fallbackModel(provider) ==
    MODEL_OPTIONS[CHOOSE i \in 1..Len(MODEL_OPTIONS) :
                     /\ MODEL_OPTIONS[i].provider = provider
                     /\ \A j \in 1..(i - 1) : MODEL_OPTIONS[j].provider # provider].value

availableModels(provider) ==
    { MODEL_OPTIONS[i].value : i \in { j \in 1..Len(MODEL_OPTIONS) :
                                         MODEL_OPTIONS[j].provider = provider } }

\* const isValid = charCount >= 100 && charCount <= 15000
isValid(form) ==
    form.resume_text.length >= MinResumeLength /\ form.resume_text.length <= MaxResumeLength

\* an Analyze button that is disabled by the length only
analyzeDisabled_lengthOnly(form, isLoading) == ~isValid(form)

\* disabled={!isValid || isLoading}
analyzeDisabled(form, isLoading) == ~isValid(form) \/ isLoading

\* a provider change that keeps the key in the field
handleProviderChange_keepKey(form, provider) ==
    [form EXCEPT !.provider = provider, !.model = fallbackModel(provider)]

handleProviderChange(form, provider) ==
    [form EXCEPT !.provider = provider,
                 !.model = fallbackModel(provider),
                 !.provider_api_key = IF form.provider = provider
                                      THEN nullish(form.provider_api_key, Nil)
                                      ELSE Nil]

\* JSON.stringify({ ...input, provider_api_key: input.provider_api_key || undefined })
analyzeBody(form) ==
    [ resume_text |-> form.resume_text, perspective |-> "general", language |-> "es",
      region |-> "latam_mx", provider |-> form.provider, model |-> form.model,
      provider_api_key |-> orElse(form.provider_api_key, Nil),
      target_role |-> Nil, job_description |-> Nil ]

\* the member names of AnalysisOutput that the browser reads, as characters
Names ==
    [ meta |-> <<"m", "e", "t", "a">>,
      warnings |-> <<"w", "a", "r", "n", "i", "n", "g", "s">>,
      errors |-> <<"e", "r", "r", "o", "r", "s">>,
      diagnostic |-> <<"d", "i", "a", "g", "n", "o", "s", "t", "i", "c">>,
      strengths |-> <<"s", "t", "r", "e", "n", "g", "t", "h", "s">>,
      gaps |-> <<"g", "a", "p", "s">>,
      risks |-> <<"r", "i", "s", "k", "s">>,
      keyword_helper |->
          <<"k", "e", "y", "w", "o", "r", "d",
            "_", "h", "e", "l", "p", "e", "r">>,
      recommendations |->
          <<"r", "e", "c", "o", "m", "m", "e",
            "n", "d", "a", "t", "i", "o", "n", "s">>,
      global |-> <<"g", "l", "o", "b", "a", "l">>,
      by_section |-> <<"b", "y", "_", "s", "e", "c", "t", "i", "o", "n">>,
      perspective |-> <<"p", "e", "r", "s", "p", "e", "c", "t", "i", "v", "e">>,
      language |-> <<"l", "a", "n", "g", "u", "a", "g", "e">>,
      region |-> <<"r", "e", "g", "i", "o", "n">>,
      improved_resume_markdown |->
          <<"i", "m", "p", "r", "o", "v", "e", "d", "_", "r", "e", "s",
            "u", "m", "e", "_", "m", "a", "r", "k", "d", "o", "w", "n">> ]

quoted(name) == <<"\"">> \o name \o <<"\"">>

\* an AnalysisOutput document as a model writes it; rest holds further members
AnalysisText(rest) ==
    <<"{">> \o quoted(Names.meta) \o <<":", "{">>
        \o quoted(Names.warnings) \o <<":", "[", "]", ",">>
        \o quoted(Names.errors) \o <<":", "[", "]", "}", ",">>
    \o quoted(Names.diagnostic) \o <<":", "{">>
        \o quoted(Names.strengths) \o <<":", "[", "]", ",">>
        \o quoted(Names.gaps) \o <<":", "[", "]", ",">>
        \o quoted(Names.risks) \o <<":", "[", "]", "}", ",">>
    \o quoted(Names.keyword_helper) \o <<":", "{", "}", ",">>
    \o quoted(Names.recommendations) \o <<":", "{">>
        \o quoted(Names.global) \o <<":", "[", "]", ",">>
        \o quoted(Names.by_section) \o <<":", "{", "}", "}">>
    \o rest \o <<"}">>

MarkdownMember(markdown) ==
    <<",">> \o quoted(Names.improved_resume_markdown) \o <<":">> \o quoted(markdown)

\* the body of a rewrite stream: the rewrite phase document
RewriteText(markdown) ==
    <<"{">> \o quoted(Names.improved_resume_markdown) \o <<":">> \o quoted(markdown)
    \o <<"}">>

\* value === null || value === undefined
isNullish(value) == value.t = "none" \/ (value.t = "lit" /\ value.v = "null")

\* value[key] of a value that is not nullish; undefined when there is none
member(value, key) ==
    IF value.t = "obj" /\ \E n \in 1..Len(value.v) : value.v[n].k = key
    THEN value.v[CHOOSE n \in 1..Len(value.v) : value.v[n].k = key].v
    ELSE NoValue

\* what the render of a tab reads of result without a guard, in the header
\* and in the tab open; the members are of the types AnalysisOutput declares
\* or the read throws a TypeError
renders(result, activeTab) ==
    /\ member(result, Names.meta).t = "obj"
    /\ member(member(result, Names.meta), Names.warnings).t = "arr"
    /\ member(member(result, Names.meta), Names.errors).t = "arr"
    /\ ~isNullish(member(result, Names.diagnostic))
    /\ activeTab = "overview" =>
        /\ member(member(result, Names.diagnostic), Names.strengths).t = "arr"
        /\ member(member(result, Names.diagnostic), Names.gaps).t = "arr"
        /\ member(member(result, Names.diagnostic), Names.risks).t = "arr"
        /\ ~isNullish(member(result, Names.keyword_helper))
    /\ activeTab = "recommendations" =>
        /\ member(member(result, Names.recommendations), Names.global).t = "arr"
        /\ ~isNullish(member(member(result, Names.recommendations), Names.by_section))


\* what the model may answer to the page's request
BrowserReplies ==
    { [kind |-> "text", text |-> AnalysisText(<<>>)],
      [kind |-> "text", text |-> AnalysisText(MarkdownMember(<<"m">>))],
      [kind |-> "text", text |-> AnalysisText(MarkdownMember(<<>>))],
      [kind |-> "text", text |-> TextMember],
      [kind |-> "text", text |-> <<"n", "u", "l", "l">>],
      [kind |-> "text", text |-> TextTruncated],
      [kind |-> "error", text |-> <<>>] }

\* the response of POST /api/analyze to a request, the model answering reply
analyzeResponse(streamRequested, input, reply) ==
    LET validation == analyzeValidate(streamRequested, input)
        b == invokeModel(input.provider, input.model)
        c == vendorCall(b.run, input.model, buildAnalysisPhaseMessage(input),
                        "ANALYSIS_PHASE_PROMPT", nullish(input.provider_api_key, Nil), env)
        normalized == normalizePhaseResponse(b.provider, reply.text)
    IN
    IF validation.kind # "none" THEN validation
    ELSE IF c.key = Nil
    THEN analyzeCatch(Error(<<"Missing ", providerLabel(c.vendor), " API key">>))
    ELSE IF reply.kind = "error" THEN analyzeCatch(Error(<<"vendor error">>))
    ELSE IF reply.kind = "null" \/ reply.text = <<>>
    THEN analyzeCatch(Error(<<"Empty ", "analysis", " phase response from ", b.provider>>))
    ELSE IF JSONparse(normalized).ok THEN jsonValue(JSONparse(normalized).val)
    ELSE analyzeCatch(PhaseParseError("analysis", b.provider, reply.text, normalized,
                                      SyntaxError))

\* result && ...: the values React renders the results view for
truthy(value) ==
    /\ value.t # "none"
    /\ ~(value.t = "lit" /\ value.v \in {"null", "false"})
    /\ ~(value.t = "num" /\ value.v = 0)
    /\ ~(value.t = "str" /\ value.v = <<>>)

NoView == [mounted |-> FALSE]

\* the error state of a component: null, or the message of the Error caught
NullError == [isNull |-> TRUE, message |-> <<>>]

errorOf(message) == [isNull |-> FALSE, message |-> message]

InitBrowser ==
    /\ env = [OPENAI_API_KEY |-> "sk-env-openai", GEMINI_API_KEY |-> "sk-env-gemini"]
    /\ req = [endpoint |-> "none", stream |-> FALSE, input |-> [none |-> TRUE]]
    /\ pc = "idle"
    /\ phase = "none"
    /\ params = NoParams
    /\ calls = <<>>
    /\ text = NoText
    /\ actualProvider = "none"
    /\ cleaned = <<>>
    /\ data = NoValue
    /\ thrown = NoError
    /\ resp = NoResponse
    /\ nIn = <<>>
    /\ nStage = "off"
    /\ nOnce = <<>>
    /\ nTwice = <<>>
    /\ page = [ open |-> TRUE,
                form |-> [ resume_text |-> [defined |-> TRUE, length |-> 0],
                           provider |-> "gemini", model |-> MODEL_OPTIONS[2].value,
                           provider_api_key |-> Nil ],
                isLoading |-> FALSE,
                result |-> NoValue, error |-> NullError, keyTypedUnder |-> "none" ]
    /\ view = NoView
    /\ net = [ open |-> TRUE, analyze |-> <<>>, analyses |-> 0, stored |-> <<>>,
               rewrite |-> <<>>, rewrites |-> 0 ]
    /\ stream = [state |-> "none"]

\* the textarea's onChange
ResumeEdit ==
    /\ page.open
    /\ \E r \in ({ r \in ResumeTexts : r.defined }) :
        /\ r # page.form.resume_text
        /\ page' = [page EXCEPT !.form.resume_text = r]
    /\ UNCHANGED <<env, httpVars, normVars, view, net, stream>>

\* the provider select's onChange
ProviderChange ==
    /\ page.open
    /\ \E provider \in Providers :
        /\ provider # page.form.provider
        /\ page' = [page EXCEPT !.form = handleProviderChange(page.form, provider)]
    /\ UNCHANGED <<env, httpVars, normVars, view, net, stream>>

\* the model select's onChange: one of the models of the selected provider
ModelChange ==
    /\ page.open
    /\ \E model \in availableModels(page.form.provider) :
        page' = [page EXCEPT !.form.model = model]
    /\ UNCHANGED <<env, httpVars, normVars, view, net, stream>>

\* the key field's onChange: provider_api_key: e.target.value || null.
\* keyTypedUnder remembers the provider selected while the key was typed.
KeyEdit ==
    /\ page.open
    /\ \E typed \in {"", "sk-a", "sk-b"} :
        /\ orElse(typed, Nil) # page.form.provider_api_key
        /\ page' = [page EXCEPT !.form.provider_api_key = orElse(typed, Nil),
                                !.keyTypedUnder = IF typed = "" THEN "none"
                                                  ELSE page.form.provider]
    /\ UNCHANGED <<env, httpVars, normVars, view, net, stream>>

\* a click on the Analyze button: handleAnalyze up to its await of fetch.  The
\* results view of the former result is unmounted by setResult(null).  The
\* request in flight is held with the response the analyze route gives to it.
AnalyzeClick ==
    /\ page.open
    /\ ~analyzeDisabled(page.form, page.isLoading)
    /\ net.analyses < MaxAnalyses
    /\ \E reply \in BrowserReplies :
        LET streamRequested == page.form.provider = "gemini"
            body == analyzeBody(page.form)
        IN net' = [net EXCEPT !.analyze = Append(@, [ stream |-> streamRequested,
                                                      input |-> body,
                                                      keyTypedUnder |-> page.keyTypedUnder,
                                                      reply |-> reply,
                                                      response |-> analyzeResponse(streamRequested,
                                                                                   body, reply) ]),
                              !.analyses = @ + 1]
    /\ page' = [page EXCEPT !.isLoading = TRUE, !.error = NullError, !.result = NoValue]
    /\ view' = NoView
    /\ UNCHANGED <<env, httpVars, normVars, stream>>

(***************************************************************************)
(* components/ResultsDisplay: the results view                             *)
(***************************************************************************)
\* raw.split(/\r?\n/): the lines of raw, the n-th of which lies between the
\* line feeds n - 1 and n, less the carriage return before line feed n
splitLines(raw) ==
    LET feeds == { i \in 1..Len(raw) : raw[i] = "\n" }
        feed(n) == IF n = 0 THEN 0
                   ELSE IF n > Cardinality(feeds) THEN Len(raw) + 1
                   ELSE CHOOSE b \in feeds : Cardinality({ c \in feeds : c < b }) = n - 1
        lineOf(n) ==
            LET from == feed(n - 1) + 1
                to == feed(n) - 1
            IN IF n <= Cardinality(feeds) /\ to >= from /\ raw[to] = "\r"
               THEN SubSeq(raw, from, to - 1)
               ELSE SubSeq(raw, from, to)
    IN [ n \in 1..(Cardinality(feeds) + 1) |-> lineOf(n) ]

normalizeStreamPayload(raw) ==
    LET trimmedOf(lines) == [n \in 1..Len(lines) |-> trim(lines[n])]
        trimmed == trimmedOf(splitLines(raw))
        filled == SelectSeq(trimmed, LAMBDA l : l # <<>>)
        unprefixed == [n \in 1..Len(filled) |->
                          IF startsWith(filled[n], <<"d", "a", "t", "a", ":">>)
                          THEN trim(sliceFrom(filled[n], 5))
                          ELSE filled[n]]
    IN join(SelectSeq(unprefixed,
                      LAMBDA l : l # <<>> /\ l # <<"[", "D", "O", "N", "E", "]">>),
            <<"\n">>)

cleanModelJsonPayload(payload) ==
    LET c0 == trim(payload)
        c1 == IF startsWith(c0, FenceJson) THEN sliceFrom(c0, 7)
              ELSE IF startsWith(c0, Fence) THEN sliceFrom(c0, 3)
              ELSE c0
        c2 == IF endsWith(c1, Fence) THEN sliceDropLast(c1, 3) ELSE c1
    IN trim(c2)

\* the value parsed, or the Error thrown
parseStreamedJsonResponse(raw, key) ==
    LET \* JSON.parse(jsonString) and the catch around it
        parsedOf(r) ==
            IF r.ok THEN [ok |-> TRUE, val |-> r.val, message |-> <<>>]
            ELSE [ok |-> FALSE, val |-> NoValue,
                  message |-> <<"Unable to parse streamed JSON payload">>]
        \* jsonString = extractJsonObjectContainingKey(...) ?? cleanedCandidate
        sliced(cleanedCandidate, found) ==
            IF found.isNull THEN parsedOf(JSONparse(cleanedCandidate))
            ELSE parsedOf(JSONparse(found.v))
        cleanedOf(cleanedCandidate) ==
            sliced(cleanedCandidate, extractJsonObjectContainingKey(cleanedCandidate, key))
        \* payload = normalizeStreamPayload(raw) || raw
        payloadOf(normalized) ==
            cleanedOf(cleanModelJsonPayload(IF normalized = <<>> THEN raw ELSE normalized))
    IN payloadOf(normalizeStreamPayload(raw))

parseStreamedRewriteResponse(raw) ==
    LET \* the checks on what parseStreamedJsonResponse has returned or thrown
        checked(parsed) ==
            IF ~parsed.ok THEN parsed
            ELSE IF isNullish(parsed.val)
            THEN [ok |-> FALSE, val |-> NoValue, message |-> <<"TypeError">>]
            ELSE IF member(parsed.val, Names.improved_resume_markdown).t # "str"
            THEN [ok |-> FALSE, val |-> NoValue,
                  message |-> <<"Rewrite payload missing improved resume content">>]
            ELSE [ok |-> TRUE, val |-> member(parsed.val, Names.improved_resume_markdown),
                  message |-> <<>>]
    IN checked(parseStreamedJsonResponse(raw, Names.improved_resume_markdown))

\* the stream of the rewrite route as the vendor fills and ends it
RewriteReplies ==
    { [text |-> RewriteText(<<"m">>), end |-> "closed"],
      [text |-> RewriteText(<<>>), end |-> "closed"],
      [text |-> <<"d", "a", "t", "a", ":">> \o <<" ">> \o RewriteText(<<"m">>) \o <<"\n">>
                \o <<"d", "a", "t", "a", ":">> \o <<" ">> \o <<"[", "D", "O", "N", "E", "]">>,
       end |-> "closed"],
      [text |-> TextMember, end |-> "closed"],
      [text |-> TextProse, end |-> "closed"],
      [text |-> <<>>, end |-> "errored"] }

\* useState(result.improved_resume_markdown ?? null)
initialMarkdown(result) ==
    IF isNullish(member(result, Names.improved_resume_markdown)) THEN [t |-> "lit", v |-> "null"]
    ELSE member(result, Names.improved_resume_markdown)

\* the component as React mounts it for a result and its other props
ResultsDisplay(id, result, resumeText, provider, model, apiKey) ==
    [ mounted |-> TRUE, id |-> id, result |-> result, resumeText |-> resumeText,
      provider |-> provider, model |-> model, apiKey |-> apiKey,
      activeTab |-> "overview", rewriteLoading |-> FALSE,
      rewriteError |-> NullError, rewriteMarkdown |-> initialMarkdown(result) ]

\* !rewriteError
noError(error) == error.isNull \/ error.message = <<>>

\* the canva tab is there with hasImprovedResume, Boolean(rewriteMarkdown?.trim())
tabs(display) ==
    IF display.rewriteMarkdown.t = "str" /\ trim(display.rewriteMarkdown.v) # <<>>
    THEN {"overview", "recommendations", "improved", "canva"}
    ELSE {"overview", "recommendations", "improved"}

\* a generate button that stays while a request is in flight
generateShown_whileLoading(display) ==
    /\ display.activeTab = "improved"
    /\ ~truthy(display.rewriteMarkdown)
    /\ noError(display.rewriteError)

\* the generate button of the Improved tab is rendered
generateShown(display) ==
    /\ display.activeTab = "improved"
    /\ ~truthy(display.rewriteMarkdown)
    /\ ~display.rewriteLoading
    /\ noError(display.rewriteError)

\* the retry button of the Improved tab is rendered
retryShown(display) ==
    /\ display.activeTab = "improved"
    /\ ~noError(display.rewriteError)

\* a body that leaves the analysis out
rewriteBody_noAnalysis(display) ==
    [ resume_text |-> display.resumeText,
      analysis |-> NoValue,
      perspective |-> member(member(display.result, Names.meta), Names.perspective),
      language |-> member(member(display.result, Names.meta), Names.language),
      region |-> member(member(display.result, Names.meta), Names.region),
      provider |-> display.provider,
      model |-> display.model,
      provider_api_key |-> display.apiKey ]

\* the body generateImprovedResume posts to /api/rewrite
rewriteBody(display) ==
    [ resume_text |-> display.resumeText,
      analysis |-> display.result,
      perspective |-> member(member(display.result, Names.meta), Names.perspective),
      language |-> member(member(display.result, Names.meta), Names.language),
      region |-> member(member(display.result, Names.meta), Names.region),
      provider |-> display.provider,
      model |-> display.model,
      provider_api_key |-> display.apiKey ]

\* the response of POST /api/rewrite to a body, the vendor's stream being reply
rewriteResponse(body, reply) ==
    LET \* the RewriteInput the route reads of the body
        input == [ resume_text |-> body.resume_text,
                   analysis |-> [ present |-> truthy(body.analysis),
                                  recommendations |->
                                      ~isNullish(member(body.analysis,
                                                        Names.recommendations)) ],
                   perspective |-> body.perspective,
                   language |-> body.language,
                   region |-> body.region,
                   provider |-> body.provider,
                   model |-> body.model,
                   provider_api_key |-> body.provider_api_key,
                   target_role |-> Nil ]
        r == rewritePOST(input).resp
    IN IF r.kind = "stream" THEN [r EXCEPT !.text = reply.text, !.end = reply.end]
       ELSE r

\* a sequence without its i-th element
without(seq, i) == [j \in 1..(Len(seq) - 1) |-> IF j < i THEN seq[j] ELSE seq[j + 1]]

\* fetch resolves and handleAnalyze runs to its end: an error response sets
\* error; a response of the analyze route carries no X-Analysis-Provider
\* header, so its body is read with response.json() and stored as result.
\* React then renders the results view; a render that throws takes the page
\* down.  stored is the history of the results stored.
AnalyzeSettled ==
    /\ page.open
    /\ \E i \in 1..Len(net.analyze) :
        LET response == net.analyze[i].response
            ok == response.status >= 200 /\ response.status <= 299
            result == response.data
        IN /\ net' = [net EXCEPT !.analyze = without(@, i),
                                 !.stored = IF ok THEN Append(@, result) ELSE @]
           /\ page' = [page EXCEPT !.isLoading = FALSE,
                                   !.error = IF ok THEN @ ELSE errorOf(response.error),
                                   !.result = IF ok THEN result ELSE @,
                                   !.open = ~(ok /\ truthy(result))
                                            \/ renders(result, "overview")]
           /\ view' = IF ok /\ renders(result, "overview")
                      THEN ResultsDisplay(Len(net.stored) + 1, result,
                                          [defined |-> FALSE, length |-> 0], Nil, Nil, Nil)
                      ELSE view
    /\ UNCHANGED <<env, httpVars, normVars, stream>>

\* handleTabChange, by a click on one of the tabs rendered
TabChange ==
    /\ view.mounted
    /\ \E tabId \in tabs(view) :
        /\ tabId # view.activeTab
        /\ IF renders(view.result, tabId)
           THEN /\ view' = [view EXCEPT !.activeTab = tabId]
                /\ page' = page
           ELSE /\ view' = NoView
                /\ page' = [page EXCEPT !.open = FALSE]
    /\ UNCHANGED <<env, httpVars, normVars, net, stream>>

\* a click on the generate or the retry button: generateImprovedResume up to
\* its await of fetch.  Reading result.meta of a result without meta throws
\* inside the try block.  The request in flight is held with the response
\* the rewrite route gives to it; markdown is the rewriteMarkdown it was sent
\* with.
GenerateClick ==
    /\ view.mounted
    /\ generateShown(view) \/ retryShown(view)
    /\ net.rewrites < MaxRewrites
    /\ IF truthy(view.rewriteMarkdown)
       THEN UNCHANGED <<view, net>>
       ELSE IF isNullish(member(view.result, Names.meta))
       THEN /\ view' = [view EXCEPT !.rewriteLoading = FALSE,
                                    !.rewriteError = errorOf(<<"TypeError">>)]
            /\ net' = net
       ELSE /\ view' = [view EXCEPT !.rewriteLoading = TRUE,
                                    !.rewriteError = NullError]
            /\ \E reply \in RewriteReplies :
                net' = [net EXCEPT !.rewrite = Append(@,
                                       [ view |-> view.id,
                                         body |-> rewriteBody(view),
                                         markdown |-> view.rewriteMarkdown,
                                         response |-> rewriteResponse(rewriteBody(view),
                                                                      reply) ]),
                                   !.rewrites = @ + 1]
    /\ UNCHANGED <<env, httpVars, normVars, page, stream>>

\* fetch resolves and generateImprovedResume runs to its end; the state of a
\* view that has been unmounted meanwhile is no longer there to be set
RewriteSettled ==
    /\ net.open
    /\ \E i \in 1..Len(net.rewrite) :
        LET response == net.rewrite[i].response
            failed(message) == [view EXCEPT !.rewriteLoading = FALSE,
                                            !.rewriteError = errorOf(message)]
            \* setRewriteMarkdown of the content parsed, or the catch block
            settled(parsed) == IF ~parsed.ok THEN failed(parsed.message)
                               ELSE [view EXCEPT !.rewriteLoading = FALSE,
                                                 !.rewriteMarkdown = parsed.val]
        IN /\ net' = [net EXCEPT !.rewrite = without(@, i)]
           /\ view' = IF ~(view.mounted /\ view.id = net.rewrite[i].view) THEN view
                      ELSE IF ~(response.status >= 200 /\ response.status <= 299)
                      THEN failed(<<"Failed to generate improved resume">>)
                      ELSE IF response.end = "errored" THEN failed(<<"network error">>)
                      ELSE settled(parseStreamedRewriteResponse(response.text))
    /\ UNCHANGED <<env, httpVars, normVars, page, stream>>

NextBrowser ==
    \/ ResumeEdit
    \/ ProviderChange
    \/ ModelChange
    \/ KeyEdit
    \/ AnalyzeClick
    \/ AnalyzeSettled
    \/ TabChange
    \/ GenerateClick
    \/ RewriteSettled

SpecBrowser == InitBrowser /\ [][NextBrowser]_vars

\* the browser's requests are answered: fetch settles
SpecBrowserFair ==
    SpecBrowser /\ WF_vars(AnalyzeSettled) /\ WF_vars(RewriteSettled)

(***************************************************************************)
(* The results view on its own, mounted by a parent that passes every prop *)
(***************************************************************************)
InitResults ==
    /\ env \in Environments
    /\ req = [endpoint |-> "none", stream |-> FALSE, input |-> [none |-> TRUE]]
    /\ pc = "idle"
    /\ phase = "none"
    /\ params = NoParams
    /\ calls = <<>>
    /\ text = NoText
    /\ actualProvider = "none"
    /\ cleaned = <<>>
    /\ data = NoValue
    /\ thrown = NoError
    /\ resp = NoResponse
    /\ nIn = <<>>
    /\ nStage = "off"
    /\ nOnce = <<>>
    /\ nTwice = <<>>
    /\ page = [open |-> FALSE]
    /\ \E props \in [ result : { JSONparse(AnalysisText(<<>>)).val,
                                  JSONparse(AnalysisText(MarkdownMember(<<"m">>))).val,
                                  JSONparse(AnalysisText(MarkdownMember(<<>>))).val },
                       resumeText : { [defined |-> TRUE, length |-> MinResumeLength - 1],
                                      [defined |-> TRUE, length |-> MinResumeLength] },
                       provider : Providers,
                       apiKey : {Nil, "sk-a"} ] :
        view = ResultsDisplay(1, props.result, props.resumeText, props.provider,
                              fallbackModel(props.provider), props.apiKey)
    /\ net = [ open |-> TRUE, analyze |-> <<>>, analyses |-> 0, stored |-> <<>>,
               rewrite |-> <<>>, rewrites |-> 0 ]
    /\ stream = [state |-> "none"]

NextResults ==
    \/ TabChange
    \/ GenerateClick
    \/ RewriteSettled

SpecResults == InitResults /\ [][NextResults]_vars



(***************************************************************************)
(* Properties                                                              *)
(***************************************************************************)
\* the handler has produced its response (a streamed body may still follow)
Answered == pc \in {"streaming", "responded"}

lengthInRange(resume_text) ==
    /\ resume_text.defined
    /\ resume_text.length >= MinResumeLength
    /\ resume_text.length <= MaxResumeLength

GeminiPrefix == <<"g", "e", "m", "i", "n", "i">>

\* C1: every POST /analyze whose resume_text is missing or has a length
\* below 100 or above 15000 is answered 400 without any model call, and
\* every one whose length is in [100, 15000] reaches the phase runner.
C1_AnalyzeLengthValidation ==
    (req.endpoint = "analyze" /\ pc = "responded") =>
        /\ ~lengthInRange(req.input.resume_text) =>
               (resp.status = 400 /\ calls = <<>>)
        /\ lengthInRange(req.input.resume_text) => phase # "none"

\* C2: every POST /rewrite whose resume_text length is outside [100, 15000]
\* is answered 400 and no model call is made for it.
C2_RewriteLengthValidation ==
    (req.endpoint = "rewrite" /\ Answered /\ ~lengthInRange(req.input.resume_text)) =>
        (resp.status = 400 /\ calls = <<>>)

\* C3: a POST /rewrite without an analysis payload is answered 400, and no
\* vendor request is ever made for a rewrite whose analysis is absent: every
\* rewrite prompt sent embeds a present analysis.
C3_RewriteRequiresAnalysis ==
    req.endpoint = "rewrite" =>
        /\ (Answered /\ ~req.input.analysis.present) =>
               (resp.status = 400 /\ resp.kind = "error")
        /\ calls # <<>> => req.input.analysis.present
        /\ \A i \in 1..Len(calls) :
               calls[i].user.template = "rewrite" /\ calls[i].user.analysis.present

C3_Witness ==
    /\ req.endpoint = "rewrite"
    /\ pc = "responded"
    /\ lengthInRange(req.input.resume_text)
    /\ ~req.input.analysis.present
    /\ resp.status = 400
    /\ resp.error = <<"Analysis data is required">>
    /\ calls = <<>>

PhaseEdges ==
    { <<"Pending", "Invoked">>,
      <<"Invoked", "EmptyResponseFailure">>,
      <<"Invoked", "NormalizedOk">>,
      <<"NormalizedOk", "ParsedOk">>,
      <<"NormalizedOk", "ParseFailure">> }

TerminalOutcomes == {"EmptyResponseFailure", "ParsedOk", "ParseFailure"}

\* C4: within one runPhase invocation the phase state moves only along
\* Pending -> Invoked -> {EmptyResponseFailure | NormalizedOk -> {ParsedOk |
\* ParseFailure}}; at most one vendor request is made and, once made, no
\* other follows (no retry, no call to the other provider); once the adapter
\* has returned, the invocation ends in one of the three terminal outcomes,
\* which it never leaves; every invocation ends either with the parsed value
\* or with one thrown error, never both (an error of the adapter itself, a
\* missing credential or a vendor error, is thrown out of Invoked).
C4_SingleCallNoRetry ==
    [][ /\ phase' # phase =>
              \/ <<phase, phase'>> \in PhaseEdges
              \/ pc = "idle" /\ phase = "none" /\ phase' = "Pending"
              \/ pc = "responded" /\ phase' = "none"
        /\ Len(calls') <= 1
        /\ (calls # <<>> /\ pc # "responded") => calls' = calls
        /\ (pc' = "responded" /\ actualProvider' # "none") =>
               phase' \in TerminalOutcomes
        /\ (pc' = "responded" /\ phase' # "none") =>
               /\ (phase' = "ParsedOk") # (thrown' # NoError)
               /\ (phase' = "ParsedOk") = (data' # NoValue)
               /\ thrown'.name = "PhaseParseError" <=> phase' = "ParseFailure"
      ]_vars

C4_Witness ==
    /\ pc = "responded"
    /\ phase = "ParseFailure"
    /\ Len(calls) = 1
    /\ thrown.name = "PhaseParseError"

rewriteEnvKey == IF req.input.provider = "openai" THEN env.OPENAI_API_KEY
                                                  ELSE env.GEMINI_API_KEY

\* C6: POST /rewrite answers each kind of outcome with the status POST
\* /analyze gives it: the status analyze's validation gives the same
\* resume_text, analyze's status for a missing credential (500), for an empty
\* response (500), for text that does not parse (502), and 200 on success.
C6_RewriteMirrorsAnalyze ==
    (req.endpoint = "rewrite" /\ pc = "responded") =>
        LET v == analyzeValidate(FALSE, req.input)
            noKey == falsy(req.input.provider_api_key) /\ falsy(rewriteEnvKey)
            vendor == IF req.input.provider = "openai" THEN "openai" ELSE "gemini"
        IN
        /\ v.kind # "none" => resp.status = v.status
        /\ (v.kind = "none" /\ req.input.analysis.present /\ noKey) =>
               resp.status = analyzeCatch(Error(<<"Missing key">>)).status
        /\ (resp.kind = "stream" /\ resp.text = <<>>) =>
               resp.status = analyzeCatch(Error(<<"Empty response">>)).status
        /\ (resp.kind = "stream" /\ resp.text # <<>>
              /\ ~JSONparse(normalizePhaseResponse(vendor, resp.text)).ok) =>
               resp.status = analyzeCatch(PhaseParseError("rewrite", vendor, resp.text,
                                              normalizePhaseResponse(vendor, resp.text),
                                              SyntaxError)).status
        /\ resp.end = "errored" =>
               resp.status = analyzeCatch(Error(<<"vendor error">>)).status
        /\ resp.status = 200 =>
               JSONparse(normalizePhaseResponse(vendor, resp.text)).ok

\* C7: a response with a success status carries the complete phase result (a
\* text that is whole and parses), and a model call that failed, was cut
\* short or produced text that does not parse is answered with an error
\* body carrying no phase content.
C7_NoPartialResult ==
    pc = "responded" =>
        /\ (req.endpoint = "analyze" /\ resp.status = 200) =>
               (resp.kind = "json" /\ phase = "ParsedOk" /\ resp.data = JSONparse(cleaned).val)
        /\ (req.endpoint = "analyze" /\ calls # <<>> /\ phase # "ParsedOk") =>
               (resp.kind = "error" /\ resp.data = NoValue /\ resp.text = <<>>)
        /\ (req.endpoint = "rewrite" /\ resp.status = 200) =>
               /\ resp.end = "closed"
               /\ JSONparse(normalizePhaseResponse(calls[1].vendor, resp.text)).ok
        /\ (req.endpoint = "rewrite" /\ calls # <<>>
              /\ (\/ resp.end = "errored"
                  \/ ~JSONparse(normalizePhaseResponse(calls[1].vendor, resp.text)).ok)) =>
               (resp.kind = "error" /\ resp.text = <<>>)

\* C8: in invokeModel a model id that starts with 'gemini' sends the request
\* to Gemini whatever the provider field says, any other model id sends it to
\* the provider named, and the provider returned beside the text is the
\* vendor the request went to.
C8_ProviderDispatch ==
    (req.endpoint = "analyze" /\ calls # <<>>) =>
        LET m == req.input.model
            gem == Len(m) >= 6 /\ SubSeq(m, 1, 6) = GeminiPrefix
        IN
        /\ gem => calls[1].vendor = "gemini"
        /\ ~gem => calls[1].vendor = req.input.provider
        /\ actualProvider # "none" => actualProvider = calls[1].vendor

C8_Witness ==
    /\ req.endpoint = "analyze"
    /\ req.input.provider = "openai"
    /\ startsWith(req.input.model, GeminiPrefix)
    /\ Len(calls) = 1
    /\ calls[1].vendor = "gemini"
    /\ actualProvider = "gemini"

\* a configuration error has been reported for the request
ConfigurationError ==
    \/ thrown.name = "Error" /\ thrown.message # <<>> /\ thrown.message[1] = "Missing "
    \/ resp.kind = "error" /\ resp.error[1] = "Missing "

\* C9: every vendor request carries the key of the request when the request
\* supplies one, else the default credential of the vendor it goes to; a
\* request fails with a configuration error, and makes no vendor request,
\* when neither exists, and only then.
C9_CredentialResolution ==
    (req.endpoint \in {"analyze", "rewrite"}) =>
        LET k == req.input.provider_api_key
            supplied == ~falsy(k)
            vendor == IF req.endpoint = "rewrite"
                      THEN (IF req.input.provider = "openai" THEN "openai" ELSE "gemini")
                      ELSE (IF req.input.provider = "gemini"
                               \/ startsWith(req.input.model, GeminiPrefix)
                            THEN "gemini" ELSE "openai")
            default == IF vendor = "openai" THEN env.OPENAI_API_KEY ELSE env.GEMINI_API_KEY
            resolved == IF req.endpoint = "rewrite"
                        THEN ~tooShort(req.input.resume_text) /\ req.input.analysis.present
                        ELSE phase # "none"
        IN
        /\ \A i \in 1..Len(calls) :
               /\ calls[i].vendor = vendor
               /\ calls[i].key = IF supplied THEN k ELSE default
        /\ (~supplied /\ falsy(default)) => calls = <<>>
        /\ (~supplied /\ falsy(default) /\ pc = "responded" /\ resolved) =>
               ConfigurationError
        /\ ConfigurationError => (~supplied /\ falsy(default))

\* C10: cleanJsonResponse(cleanJsonResponse(s)) = cleanJsonResponse(s) for
\* every text s.
C10_CleanIdempotent ==
    nStage = "twice" => nTwice = nOnce

\* the trimmed text ends in neither a closing brace nor a closing bracket
looksTruncated(t) == ~endsWith(trim(t), <<"}">>) /\ ~endsWith(trim(t), <<"]">>)

\* C11 (as claimed): for every text whose trimmed form ends in neither '}'
\* nor ']', repairOpenAIJson returns the text unchanged and the text it
\* returns does not parse.
C11_RepairNeverParsesTruncated ==
    (nStage = "repaired" /\ looksTruncated(nIn)) =>
        (nOnce = nIn /\ ~JSONparse(nOnce).ok)

\* C11 (amended): for every text whose trimmed form ends in neither '}' nor
\* ']', repairOpenAIJson returns the text unchanged; the text it returns
\* parses only when the input is itself a complete JSON scalar (a number, a
\* string, true, false or null).
C11_RepairLeavesTruncated ==
    (nStage = "repaired" /\ looksTruncated(nIn)) =>
        /\ nOnce = nIn
        /\ (JSONparse(nOnce).ok => JSONparse(nIn).val.t \in {"num", "str", "lit"})

C11_Witness ==
    /\ nStage = "repaired"
    /\ looksTruncated(nIn)
    /\ nIn # trim(nIn)
    /\ startsWith(trim(nIn), <<"{">>)
    /\ nOnce = nIn
    /\ ~JSONparse(nOnce).ok

\* C12: repairOpenAIJson returns every text that parses as JSON exactly as it
\* was given, leading and trailing white space included.
C12_RepairNoOpOnValid ==
    (nStage = "repaired" /\ JSONparse(nIn).ok) => nOnce = nIn

C12_Witness ==
    /\ nStage = "repaired"
    /\ JSONparse(nIn).ok
    /\ nIn # trim(nIn)
    /\ endsWith(trim(nIn), <<"}">>)
    /\ nOnce = nIn

\* C13: for every valid JSON document, when the Gemini path returns it inside
\* a fenced code block (opening fence with or without the json tag, closing
\* fence, optional white space around), the normaliser strips the fences and
\* runPhase returns the value the document parses to.
C13_FencedGeminiParses ==
    (nStage = "fenced" /\ pc # "awaitModel") =>
        /\ actualProvider = "gemini"
        /\ pc # "catch"
        /\ thrown = NoError
        /\ (pc \in {"parse", "return", "responded"}) => cleaned = trim(nIn)
        /\ (pc \in {"return", "responded"}) =>
               (phase = "ParsedOk" /\ data = JSONparse(nIn).val)

C13_Witness ==
    /\ nStage = "fenced"
    /\ pc = "return"
    /\ req.input.provider = "openai"
    /\ startsWith(text.v, Fence \o <<"{">>)
    /\ endsWith(text.v, <<"\n">>)
    /\ data = JSONparse(nIn).val
    /\ data.t = "obj"
    /\ data.v # <<>>

\* the provider that invokeModel called for the request in hand
calledProvider == calls[Len(calls)].vendor

\* C14: when JSON.parse of the normalised text fails, runPhase throws a
\* PhaseParseError whose phase is the requested phase, whose provider is the
\* provider actually called, whose raw is the adapter's text unmodified, whose
\* cleaned is exactly the normaliser's output, and whose originalError is the
\* parser's error.
C14_PhaseParseErrorFields ==
    (req.endpoint = "analyze" /\ phase = "ParseFailure") =>
        /\ ~JSONparse(cleaned).ok
        /\ thrown.name = "PhaseParseError"
        /\ thrown.phase = params.phase
        /\ thrown.phase = "analysis"
        /\ thrown.provider = calledProvider
        /\ thrown.raw = text.v
        /\ thrown.cleaned = normalizePhaseResponse(calledProvider, text.v)
        /\ thrown.cleaned = cleaned
        /\ thrown.originalError = SyntaxError

C14_Witness ==
    /\ req.endpoint = "analyze"
    /\ phase = "ParseFailure"
    /\ pc = "catch"
    /\ req.input.provider = "openai"
    /\ thrown.provider = "gemini"
    /\ thrown.raw = TextFencedTruncated
    /\ thrown.cleaned = TextTruncated

\* invokeModel has returned, with no text, and runPhase has gone on
ReturnedNoText ==
    /\ req.endpoint = "analyze"
    /\ actualProvider # "none"
    /\ text.isNull \/ text.v = <<>>
    /\ pc \in {"parse", "return", "catch", "responded"}

\* C15: when the adapter returns no text (null or empty), runPhase fails at
\* once with an empty-response error that names the phase and the provider
\* actually called, without normalising or parsing anything; the error is not
\* a PhaseParseError, and the endpoint answers 500, not 502.
C15_EmptyResponse ==
    ReturnedNoText =>
        /\ phase = "EmptyResponseFailure"
        /\ thrown.name = "Error"
        /\ thrown.message = <<"Empty ", "analysis", " phase response from ", calledProvider>>
        /\ cleaned = <<>>
        /\ data = NoValue
        /\ pc \in {"catch", "responded"}
        /\ pc = "responded" => (resp.kind = "error" /\ resp.status = 500)

C15_Witness ==
    /\ ReturnedNoText
    /\ ~text.isNull
    /\ pc = "responded"
    /\ req.input.provider = "openai"
    /\ calledProvider = "gemini"
    /\ resp.status = 500

NoCall == [vendor |-> "none"]

\* the vendor request the handler of an endpoint makes for a request
outboundCall(endpoint, streamRequested, input) ==
    IF endpoint = "analyze"
    THEN LET c == vendorCall(invokeModel(input.provider, input.model).run, input.model,
                             buildAnalysisPhaseMessage(input), "ANALYSIS_PHASE_PROMPT",
                             nullish(input.provider_api_key, Nil), env)
         IN IF analyzeValidate(streamRequested, input).kind # "none" \/ c.key = Nil
            THEN NoCall ELSE c
    ELSE IF endpoint = "rewrite"
    THEN IF rewritePOST(input).calls = <<>> THEN NoCall ELSE rewritePOST(input).calls[1]
    ELSE IF singlePhasePOST(streamRequested, input).calls = <<>>
         THEN NoCall ELSE singlePhasePOST(streamRequested, input).calls[1]

\* C16: the caller-supplied credential never appears in the text sent to the
\* model: a request that differs from the one in hand only in provider_api_key
\* sends the vendor the same system prompt and the same user message, and the
\* key reaches the vendor only as the credential of that one call.
C16_CredentialNotInPrompt ==
    (calls # <<>> /\ ~falsy(req.input.provider_api_key)) =>
        /\ Len(calls) = 1
        /\ calls[1] = outboundCall(req.endpoint, req.stream, req.input)
        /\ calls[1].key = req.input.provider_api_key
        /\ \A k \in RequestKeys :
             LET other == outboundCall(req.endpoint, req.stream,
                                       [req.input EXCEPT !.provider_api_key = k])
             IN other # NoCall =>
                  (other.system = calls[1].system /\ other.user = calls[1].user)

\* the model's text of the request in hand parses after normalisation
ParsesAfterNormalization ==
    /\ req.endpoint = "analyze"
    /\ pc = "responded"
    /\ actualProvider # "none"
    /\ text.v # <<>>
    /\ JSONparse(normalizePhaseResponse(actualProvider, text.v)).ok

\* C17: for every model text that parses after normalisation, the 200 body of
\* /analyze is exactly the parsed JSON value: no field is added, removed,
\* clamped or reordered, scores outside [0, 10] are returned as they are and
\* list elements keep the order the model gave them.
C17_PassThrough ==
    ParsesAfterNormalization =>
        /\ resp.status = 200
        /\ resp.kind = "json"
        /\ resp.data = JSONparse(normalizePhaseResponse(actualProvider, text.v)).val
        /\ JSONparse(resp.text).ok
        /\ JSONparse(resp.text).val =
               JSONparse(normalizePhaseResponse(actualProvider, text.v)).val

C17_Witness ==
    /\ ParsesAfterNormalization
    /\ text.v = TextScores
    /\ resp.status = 200
    /\ resp.data.v[1].k = <<"a">>
    /\ resp.data.v[1].v.v = << [t |-> "num", v |-> 12], [t |-> "num", v |-> 1] >>
    /\ resp.text = <<"{", "\"", "a", "\"", ":", "[", "1", "2", ",", "1", "]", "}">>

KeywordHelperKey ==
    <<"k", "e", "y", "w", "o", "r", "d", "_", "h", "e", "l", "p", "e", "r">>

KeywordHelperFlags == { <<"e", "n", "a", "b", "l", "e", "d">>,
                        <<"m", "e", "s", "s", "a", "g", "e">> }

\* the result has a keyword_helper block with a member other than enabled
\* and message
hasKeywordFindings(value) ==
    /\ value.t = "obj"
    /\ \E m \in 1..Len(value.v) :
        /\ value.v[m].k = KeywordHelperKey
        /\ value.v[m].v.t = "obj"
        /\ \E n \in 1..Len(value.v[m].v.v) : value.v[m].v.v[n].k \notin KeywordHelperFlags

\* C18: in every AnalysisPhaseResult that /analyze returns, keyword-helper
\* fields other than enabled and message (missing_keywords,
\* integration_suggestions, ...) are present only when the request supplied a
\* job description.
C18_KeywordHelperNeedsJobDescription ==
    (req.endpoint = "analyze" /\ pc = "responded" /\ resp.status = 200
        /\ hasKeywordFindings(resp.data)) =>
        req.input.job_description # Nil

\* a well-formed analyze request with ?stream=true whose resolved provider is
\* Gemini and for which a Gemini credential is at hand, has been answered
StreamingGeminiAnswered ==
    /\ req.endpoint \in {"analyze", "analyze-single"}
    /\ req.stream
    /\ pc = "responded"
    /\ lengthInRange(req.input.resume_text)
    /\ invokeModel(req.input.provider, req.input.model).provider = "gemini"
    /\ getGeminiClient(req.input.provider_api_key, env) # Nil

\* C19: when POST /analyze is called with the streaming query parameter and
\* the resolved provider is Gemini, the response is an incrementally delivered
\* text stream carrying the model's one JSON document, not an error response.
C19_StreamingAnalyze ==
    StreamingGeminiAnswered =>
        /\ resp.status = 200
        /\ resp.kind = "stream"
        /\ resp.end \in {"closed", "errored"}

\* the error messages of the two handlers, with the phase names and the
\* provider names they can carry
FixedErrorMessages ==
    { <<"Streaming is not available for multi-phase analysis yet.">>,
      <<"Resume text must be at least 100 characters">>,
      <<"Resume text must not exceed 15,000 characters">>,
      <<"Analysis data is required">>,
      <<"Failed to analyze resume. Please try again.">>,
      <<"Failed to rewrite resume. Please try again.">> } \cup
    { <<"The ", ph, " response was invalid JSON. Please retry.">> :
        ph \in {"analysis", "rewrite"} } \cup
    { <<"Missing ", label, " API key">> : label \in {"OpenAI", "Google Gemini"} }

\* C20: every error response body of /analyze and /rewrite is one of a fixed
\* set of messages, parameterised only by the phase name or the provider name;
\* it carries no raw model text, no normalised text, no parse-error detail,
\* no resume content and no credential.
C20_ErrorBodiesFixed ==
    (req.endpoint \in {"analyze", "rewrite"} /\ resp.kind = "error") =>
        /\ resp.status \in {400, 500, 501, 502}
        /\ resp.error \in FixedErrorMessages
        /\ resp.data = NoValue
        /\ resp.text = <<>>

C20_Witness ==
    /\ req.endpoint = "analyze"
    /\ pc = "responded"
    /\ resp.kind = "error"
    /\ resp.status = 502
    /\ thrown.raw = TextFencedTruncated
    /\ req.input.provider_api_key = "sk-user"
    /\ resp.error = <<"The ", "analysis", " response was invalid JSON. Please retry.">>

\* C22: a /rewrite request whose analysis is present but lacks a field the
\* rewrite prompt needs (no recommendations object) is rejected as an input
\* validation error, 400, before any model call, and not reported as an
\* internal failure, 500.
C22_RewriteRejectsPartialAnalysis ==
    (req.endpoint = "rewrite" /\ Answered
        /\ req.input.analysis.present /\ ~req.input.analysis.recommendations) =>
        (resp.status = 400 /\ calls = <<>>)

\* runPhase has normalised the text of the request in hand
Normalized ==
    /\ req.endpoint = "analyze"
    /\ phase \in {"NormalizedOk", "ParsedOk", "ParseFailure"}

\* C24: runPhase selects the normalisation by the provider actually called and
\* not by the one requested: fence stripping exactly when the provider called
\* is gemini, the repair exactly when it is openai; a request with provider
\* openai and a gemini-prefixed model id gets fence stripping.
C24_NormalizationByActualProvider ==
    Normalized =>
        /\ calledProvider \in {"gemini", "openai"}
        /\ calledProvider = "gemini" <=>
               (req.input.provider = "gemini" \/ isGeminiModel(req.input.model))
        /\ calledProvider = "gemini" => cleaned = cleanJsonResponse(text.v)
        /\ calledProvider = "openai" => cleaned = repairOpenAIJson(text.v)

C24_Witness ==
    /\ Normalized
    /\ req.input.provider = "openai"
    /\ isGeminiModel(req.input.model)
    /\ text.v = TextFenced
    /\ cleaned = TextObject
    /\ repairOpenAIJson(text.v) # cleaned

\* C26: for the same (provider, model) pair /rewrite calls the vendor that
\* /analyze calls: a gemini-prefixed model id goes to Gemini whatever the
\* requested provider, and the default credential is that of the vendor
\* actually called.
C26_RewriteSameVendor ==
    (req.endpoint = "rewrite" /\ calls # <<>>) =>
        LET vendor == invokeModel(req.input.provider, req.input.model).provider IN
        /\ calls[1].vendor = vendor
        /\ falsy(req.input.provider_api_key) =>
               calls[1].key = IF vendor = "gemini" THEN env.GEMINI_API_KEY
                              ELSE env.OPENAI_API_KEY

\* scanning t as the function scans it, the closing brace that matches the
\* opening brace at 1 is the last character of t
braceBalanced(t) == closingBrace(t, 1, 0, FALSE, FALSE) = Len(t)

\* the quoted key stands in t, outside string literals, directly inside the
\* outermost braces: no brace that opens before it is closed, or still open,
\* other than the first
RECURSIVE depthBefore(_, _, _, _, _)
depthBefore(t, index, upto, depth, inString) ==
    IF index >= upto THEN [depth |-> depth, inString |-> inString]
    ELSE IF t[index] = "\\" THEN depthBefore(t, index + 2, upto, depth, inString)
    ELSE IF t[index] = "\"" THEN depthBefore(t, index + 1, upto, depth, ~inString)
    ELSE IF inString THEN depthBefore(t, index + 1, upto, depth, inString)
    ELSE IF t[index] = "{" THEN depthBefore(t, index + 1, upto, depth + 1, inString)
    ELSE IF t[index] = "}" THEN depthBefore(t, index + 1, upto, depth - 1, inString)
    ELSE depthBefore(t, index + 1, upto, depth, inString)

hasOwnMember(t, key) ==
    \E i \in 1..Len(t) :
        /\ matchAt(t, i, <<"\"">> \o key \o <<"\"">>)
        /\ depthBefore(t, 1, i, 0, FALSE) = [depth |-> 1, inString |-> FALSE]

\* C28: whenever extractJsonObjectContainingKey returns a string, the string
\* starts at a '{', is brace-balanced (braces inside string literals and
\* after backslashes not counted) and has the quoted key as one of its own
\* members; otherwise it returns null.
C28_ExtractedObjectHasKey ==
    /\ nStage \in {"input", "extracted", "null"}
    /\ nStage = "extracted" =>
        /\ nOnce # <<>>
        /\ nOnce[1] = "{"
        /\ braceBalanced(nOnce)
        /\ hasOwnMember(nOnce, <<"k">>)

\* C23: the Analyze button is enabled if and only if the resume text length is
\* in [100, 15000] and no analysis is in flight (isLoading is false); no
\* request for a text outside that range is submitted, and none while another
\* is in flight.
C23_AnalyzeButton ==
    page.open =>
        /\ ~analyzeDisabled(page.form, page.isLoading) <=>
               (lengthInRange(page.form.resume_text) /\ ~page.isLoading)
        /\ page.isLoading <=> Len(net.analyze) = 1
        /\ Len(net.analyze) <= 1
        /\ \A i \in 1..Len(net.analyze) : lengthInRange(net.analyze[i].input.resume_text)

C23_Witness ==
    /\ page.open
    /\ page.isLoading
    /\ Len(net.analyze) = 1
    /\ net.analyze[1].input.resume_text.length = MaxResumeLength
    /\ page.form.resume_text.length = MaxResumeLength + 1
    /\ analyzeDisabled(page.form, page.isLoading)
    /\ net.analyses = 2

\* a valid resume has been submitted with provider gemini, and the model's
\* answer to it is a valid analysis document
GeminiSubmitted ==
    /\ page.open
    /\ net.analyze # <<>>
    /\ net.analyze[1].input.provider = "gemini"
    /\ lengthInRange(net.analyze[1].input.resume_text)
    /\ net.analyze[1].reply = [kind |-> "text", text |-> AnalysisText(<<>>)]

AnalysisStored ==
    /\ page.open
    /\ page.result.t = "obj"
    /\ page.result = JSONparse(AnalysisText(<<>>)).val
    /\ page.error = NullError
    /\ ~page.isLoading

\* C27: when the user submits a valid resume with provider gemini and the
\* model returns valid analysis JSON, handleAnalyze eventually stores that
\* analysis as the result, with error left null and isLoading back to false.
C27_GeminiAnalysisStored == GeminiSubmitted ~> AnalysisStored

\* C30: a key typed while provider P is selected is never submitted in a
\* request whose provider differs from P: after any sequence of provider
\* changes, key edits and model changes a non-null provider_api_key of the
\* form, and of every request sent, was entered under the provider it goes with.
C30_KeyStaysWithProvider ==
    page.open =>
        /\ page.form.provider_api_key # Nil => page.keyTypedUnder = page.form.provider
        /\ page.form.model \in availableModels(page.form.provider)
        /\ \A i \in 1..Len(net.analyze) :
             net.analyze[i].input.provider_api_key # Nil =>
                 net.analyze[i].keyTypedUnder = net.analyze[i].input.provider

C30_Witness ==
    /\ page.open
    /\ Len(net.analyze) = 1
    /\ net.analyses = 2
    /\ net.analyze[1].input.provider = "openai"
    /\ net.analyze[1].input.provider_api_key = "sk-b"
    /\ net.analyze[1].keyTypedUnder = "openai"
    /\ page.form.provider = "gemini"
    /\ page.form.provider_api_key = Nil

sameValue(a, b) == a.t = b.t /\ a = b

\* C25: in the UI flow every /rewrite request is preceded by an /analyze
\* response that was parsed and stored as the result, and carries that result
\* as its analysis field: the view that sent it was mounted for a stored
\* result, and the analysis of the body is that result.
C25_RewriteAfterAnalysis ==
    net.open =>
        /\ \A i \in 1..Len(net.rewrite) :
            /\ net.rewrite[i].view \in 1..Len(net.stored)
            /\ truthy(net.rewrite[i].body.analysis)
            /\ sameValue(net.rewrite[i].body.analysis, net.stored[net.rewrite[i].view])
        /\ view.mounted =>
            /\ view.id = Len(net.stored)
            /\ sameValue(view.result, net.stored[view.id])
            /\ sameValue(view.result, page.result)

C25_Witness ==
    /\ page.open
    /\ Len(net.stored) = 2
    /\ Len(net.rewrite) = 1
    /\ net.rewrite[1].view = 2
    /\ sameValue(net.rewrite[1].body.analysis, JSONparse(AnalysisText(<<>>)).val)
    /\ net.rewrite[1].response.status = 400

\* the requests of the mounted view that are in flight
inFlight == {i \in 1..Len(net.rewrite) : net.rewrite[i].view = view.id}

\* a control that triggers generateImprovedResume, were the Improved tab open
controlEnabled ==
    \/ generateShown([view EXCEPT !.activeTab = "improved"])
    \/ retryShown([view EXCEPT !.activeTab = "improved"])

RECURSIVE encoded(_)
encoded(texts) ==
    IF texts = <<>> THEN <<>> ELSE <<encode(Head(texts))>> \o encoded(Tail(texts))

isPrefix(p, q) == Len(p) <= Len(q) /\ SubSeq(q, 1, Len(p)) = p

\* C21: streamGeminiAnalysis delivers the text chunks in the order the vendor
\* yields them, and ends the stream exactly once: closed after the last chunk
\* when the vendor sequence completes, in the error state when it fails
\* mid-way.  A reader that is told the stream is done has read every chunk of
\* a completed sequence; a failed sequence is never read as done.
C21_StreamEndsOnce ==
    stream.state # "none" =>
        /\ isPrefix(stream.got, encoded(stream.yielded))
        /\ stream.state # "errored" =>
               stream.got \o stream.queue = encoded(stream.yielded)
        /\ stream.ends = IF stream.vendor = "running" THEN 0 ELSE 1
        /\ stream.vendor = "running" => stream.state = "readable" /\ ~stream.closeRequested
        /\ stream.vendor = "done" =>
               /\ stream.closeRequested
               /\ stream.state = IF stream.queue = <<>> THEN "closed" ELSE "readable"
        /\ stream.vendor = "failed" => stream.state = "errored" /\ stream.reader # "done"
        /\ stream.reader = "done" =>
               /\ stream.vendor = "done"
               /\ stream.got = encoded(stream.yielded)
               /\ stream.result = join(stream.yielded, <<>>)
        /\ stream.reader = "failed" => stream.vendor = "failed"

C21_Witness ==
    /\ stream.state = "errored"
    /\ stream.vendor = "failed"
    /\ stream.reader = "failed"
    /\ Len(stream.yielded) = 2
    /\ Len(stream.got) = 1
    /\ stream.result = <<"e'", "b">>

=============================================================================
